---------------------------- MODULE Spec2Model ----------------------------
(***************************************************************************)
(* A model of the life-simulation engine: Creature (sense / think / act /  *)
(* attack / update), Food, World (update, calculateFoodCount,              *)
(* applyPopulationPenalties, nextGeneration) and GeneticAlgorithm.evolve.  *)
(*                                                                         *)
(* Numbers.  The program computes in floating point; the model computes in *)
(* fixed point with these units, chosen so that every value that occurs is *)
(* an integer for the trait values the model enumerates:                   *)
(*   traits          hundredths          (size 1.0 is 100)                 *)
(*   energy, fitness 1/10000             (energy 100 is 1000000)           *)
(*   length, speed   1/100 pixel         (radius 12 px is 1200)            *)
(*   cos, sin        1/1000                                                *)
(*   angle           a quarter turn q plus k steps of 0.15 rad             *)
(*   brain outputs   -1, 0, 1                                              *)
(* Math.random() and the gaussian noise are nondeterministic choices from  *)
(* the pools defined below; the brain's forward pass is abstracted to a    *)
(* nondeterministic choice of four outputs in [-1, 1], while getWeights    *)
(* and setWeights are computed on the layered weights.                     *)
(***************************************************************************)
EXTENDS Integers, Sequences, FiniteSets, TLC

VARIABLES
    \* World configuration and state (World.constructor)
    width, height, populationSize, foodCount, meatCount, generationLength,
    balancing,
    creatures, foods, generation, tick, isPaused, speed, stats,
    \* EvolutionLog.entries (newest first) and the module-level id counter
    entries, creatureIdCounter,
    \* GeneticAlgorithm options (GeneticAlgorithm.constructor)
    ga,
    \* position inside World.update: pc, the speed-loop index s, the creature
    \* loop index ci
    pc, s, ci,
    \* GeneticAlgorithm.evolve: its argument and the generation being built
    population, newGen,
    \* the objects evolve allocates and writes: trait objects, weight arrays
    \* and the brains' weight storage, by address
    heap,
    \* World.calculateFoodCount applied to enumerated inputs: the previous
    \* and the current (input, result) pair
    quotaPrev, quotaNow,
    \* observation of the current update call and of the current generation
    \* (history variables; the program does not store them)
    calls, ticksInCall, transitionsInCall, endSeenInCall, updatedInTick,
    lastStep

vars == << width, height, populationSize, foodCount, meatCount,
           generationLength, balancing,
           creatures, foods, generation, tick, isPaused, speed, stats,
           entries, creatureIdCounter, ga, pc, s, ci, population, newGen, heap,
           quotaPrev, quotaNow,
           calls, ticksInCall, transitionsInCall, endSeenInCall,
           updatedInTick, lastStep >>

---------------------------------------------------------------------------
(* Bounds of the model *)

\* update() calls explored from an initial world
MaxCalls == 2
\* update() is explored while the generation counter is at most this
MaxGeneration == 2
\* largest population handed to evolve in SpecGA
MaxPop == 3
\* inputs of the brain: the architecture is (BrainInputs, << 1 >>, 1) where
\* the source's is (12, [16, 12], 4)
BrainInputs == 1

---------------------------------------------------------------------------
(* Arithmetic helpers *)

Abs(n) == IF n < 0 THEN -n ELSE n

Min(a, b) == IF a < b THEN a ELSE b

Max(a, b) == IF a > b THEN a ELSE b

\* n / d rounded to the nearest integer (d > 0): the fixed-point image of a
\* floating-point product
Round(n, d) == (2 * n + d) \div (2 * d)

Range(f) == { f[i] : i \in DOMAIN f }

RECURSIVE SumSeq(_)
SumSeq(q) == IF q = << >> THEN 0 ELSE Head(q) + SumSeq(Tail(q))

\* Array.prototype.filter
Filter(q, Keep(_)) == SelectSeq(q, Keep)

---------------------------------------------------------------------------
(* Traits.js *)

TraitKeys == << "size", "metabolism", "aggression", "vision" >>

TRAIT_DEFINITIONS ==
    [ size       |-> [ min |-> 60, max |-> 140 ],
      metabolism |-> [ min |-> 50, max |-> 150 ],
      aggression |-> [ min |-> 0,  max |-> 100 ],
      vision     |-> [ min |-> 50, max |-> 150 ] ]

clamp(value, lo, hi) == Max(lo, Min(hi, value))

\* randomInRange: min + Math.random() * (max - min), r the percent drawn
randomInRange(lo, hi, r) == lo + Round(r * (hi - lo), 100)

\* generateTraits: r[key] is the percent drawn for that trait
generateTraits(isPredator, r) ==
    [ size       |-> randomInRange(TRAIT_DEFINITIONS.size.min,
                                   TRAIT_DEFINITIONS.size.max, r.size),
      metabolism |-> randomInRange(TRAIT_DEFINITIONS.metabolism.min,
                                   TRAIT_DEFINITIONS.metabolism.max, r.metabolism),
      aggression |-> IF isPredator THEN randomInRange(60, 100, r.aggression)
                     ELSE randomInRange(0, 40, r.aggression),
      vision     |-> randomInRange(TRAIT_DEFINITIONS.vision.min,
                                   TRAIT_DEFINITIONS.vision.max, r.vision) ]

\* crossoverTraits with the second parent's value unweighted
crossoverTraitsUnweighted(traits1, traits2, blend) ==
    [ key \in DOMAIN TRAIT_DEFINITIONS |->
        Round(traits1[key] * blend[key] + traits2[key] * 100, 100) ]

\* crossoverTraits: each trait gets its own blend (percent, Math.random() * 100)
crossoverTraits(traits1, traits2, blend) ==
    [ key \in DOMAIN TRAIT_DEFINITIONS |->
        Round(traits1[key] * blend[key] + traits2[key] * (100 - blend[key]), 100) ]

\* mutateTraits without the clamp
mutateTraitsUnclamped(traits, noise) ==
    [ key \in DOMAIN TRAIT_DEFINITIONS |->
        IF noise[key].hit THEN traits[key] + noise[key].by ELSE traits[key] ]

\* mutateTraits: noise[key].hit is Math.random() < rate for that trait and
\* noise[key].by is gaussianRandom() * strength (hundredths)
mutateTraits(traits, noise) ==
    [ key \in DOMAIN TRAIT_DEFINITIONS |->
        IF noise[key].hit
        THEN clamp(traits[key] + noise[key].by,
                   TRAIT_DEFINITIONS[key].min, TRAIT_DEFINITIONS[key].max)
        ELSE traits[key] ]

\* calculateTraitEffects
calculateTraitEffects(traits) ==
    [ maxEnergy      |-> 1000000 + (traits.size - 100) * 8000,
      maxSpeed       |-> Round(4 * (1200 - 3 * traits.size) * traits.metabolism, 1000),
      energyCostBase |-> Round(5 * traits.metabolism * traits.size, 100),
      \* per 1/100 pixel of speed, in 1/100 of the energy unit
      energyCostMove |-> 2 * traits.metabolism,
      sensorLength   |-> 150 * traits.vision,
      radius         |-> 12 * traits.size,
      attackPower    |-> 30 * traits.aggression * traits.size,
      attackCooldown |-> Round(6000, traits.metabolism) ]

---------------------------------------------------------------------------
(* Food.js *)

Infinity == 2147483647

\* Food.constructor
Food(x, y, energy, type, isPredatorMeat, fromHunt) ==
    [ x |-> x, y |-> y, energy |-> energy, type |-> type,
      isPredatorMeat |-> isPredatorMeat,
      consumed |-> FALSE,
      age |-> 0,
      lifetime |-> IF type = "meat"
                   THEN (IF fromHunt THEN 800 ELSE 300)
                   ELSE Infinity ]

\* Food.radius: 6 + energy / 8 for meat, 5 + energy / 5 for plants
FoodRadius(f) ==
    IF f.type = "meat" THEN 600 + Round(f.energy, 800)
    ELSE 500 + Round(f.energy, 500)

\* Food.update with the comparison age > lifetime
FoodUpdateLate(f) ==
    IF f.type = "meat" /\ ~f.consumed
    THEN [ f EXCEPT !.age = f.age + 1,
                    !.consumed = (f.age + 1 > f.lifetime) ]
    ELSE f

\* Food.update
FoodUpdate(f) ==
    IF f.type = "meat" /\ ~f.consumed
    THEN [ f EXCEPT !.age = f.age + 1,
                    !.consumed = (f.age + 1 >= f.lifetime) ]
    ELSE f

---------------------------------------------------------------------------
(* Creature.js *)

\* NeuralNetwork.createLayer: outputSize neurons of inputSize weights each
\* (the random initial weights are drawn as 0)
createLayer(inputSize, outputSize) ==
    [ i \in 1..outputSize |-> [ j \in 1..inputSize |-> 0 ] ]

LayerSizes(inputSize, hiddenLayers, outputSize) ==
    << inputSize >> \o hiddenLayers \o << outputSize >>

\* NeuralNetwork.constructor
NeuralNetwork(inputSize, hiddenLayers, outputSize) ==
    [ layers |->
        [ l \in 1..(Len(hiddenLayers) + 1) |->
            createLayer(LayerSizes(inputSize, hiddenLayers, outputSize)[l],
                        LayerSizes(inputSize, hiddenLayers, outputSize)[l + 1]) ],
      biases |->
        [ l \in 1..(Len(hiddenLayers) + 1) |->
            [ i \in 1..LayerSizes(inputSize, hiddenLayers, outputSize)[l + 1] |-> 0 ] ] ]

\* weights.push(...neuron) for the neurons of a layer
RECURSIVE Flatten(_)
Flatten(neurons) ==
    IF neurons = << >> THEN << >> ELSE Head(neurons) \o Flatten(Tail(neurons))

\* NeuralNetwork.getWeights from layer l on: each layer's neurons, then its
\* biases
RECURSIVE WeightsFrom(_, _)
WeightsFrom(nn, l) ==
    IF l > Len(nn.layers) THEN << >>
    ELSE Flatten(nn.layers[l]) \o nn.biases[l] \o WeightsFrom(nn, l + 1)

getWeights(c) == WeightsFrom(c.brain, 1)

\* the value of idx in setWeights when layer l begins
RECURSIVE LayerStart(_, _)
LayerStart(nn, l) ==
    IF l = 1 THEN 0
    ELSE LayerStart(nn, l - 1) + Len(Flatten(nn.layers[l - 1])) + Len(nn.biases[l - 1])

\* weights[idx++]: reading past the end of a JavaScript array gives undefined
undefined == [ undefined |-> TRUE ]

\* weights[++idx]: the index advanced before the read
WeightAtNext(weights, idx) ==
    IF idx + 1 <= Len(weights) THEN weights[idx + 1] ELSE undefined

WeightAt(weights, idx) == IF idx <= Len(weights) THEN weights[idx] ELSE undefined

\* NeuralNetwork.setWeights: no check of the vector's length
setWeights(c, weights) ==
    [ c EXCEPT !.brain =
        [ layers |->
            [ l \in DOMAIN c.brain.layers |->
                [ i \in DOMAIN c.brain.layers[l] |->
                    [ j \in DOMAIN c.brain.layers[l][i] |->
                        WeightAt(weights,
                                 LayerStart(c.brain, l)
                                   + (i - 1) * Len(c.brain.layers[l][i]) + j) ] ] ],
          biases |->
            [ l \in DOMAIN c.brain.biases |->
                [ i \in DOMAIN c.brain.biases[l] |->
                    WeightAt(weights,
                             LayerStart(c.brain, l) + Len(Flatten(c.brain.layers[l]))
                               + i) ] ] ] ]

\* this.brain = new NeuralNetwork(12, [16, 12], 4)
InitialBrain == NeuralNetwork(BrainInputs, << 1 >>, 1)

\* NeuralNetwork.getWeightCount of that architecture
WeightLen == Len(WeightsFrom(InitialBrain, 1))

\* Creature.constructor, with options.isPredator and options.traits given
Creature(id, x, y, angle, isPredator, traits) ==
    [ id |-> id, x |-> x, y |-> y,
      isPredator |-> isPredator,
      traits |-> traits,
      angle |-> angle,
      speed |-> 0,
      energy |-> Round(calculateTraitEffects(traits).maxEnergy * 8, 10),
      fitness |-> 0,
      foodEaten |-> 0,
      age |-> 0,
      kills |-> 0,
      attackCooldown |-> 0,
      isElite |-> FALSE,
      brain |-> InitialBrain,
      nearestCreature |-> 0,
      deathLogged |-> FALSE,
      \* history: the energy was <= 0 at some point of this generation
      wasDead |-> FALSE ]

maxEnergy(c) == calculateTraitEffects(c.traits).maxEnergy

maxSpeed(c) == calculateTraitEffects(c.traits).maxSpeed

radius(c) == calculateTraitEffects(c.traits).radius

sensorLength(c) == calculateTraitEffects(c.traits).sensorLength

attackPower(c) == calculateTraitEffects(c.traits).attackPower

attackCooldownMax(c) == calculateTraitEffects(c.traits).attackCooldown

\* Creature.isAlive
isAlive(c) == c.energy > 0

\* dx * dx + dy * dy: every comparison dist < r of the source is Dist2 < r * r
Dist2(a, b) == (b.x - a.x) * (b.x - a.x) + (b.y - a.y) * (b.y - a.y)

\* cos and sin of an angle [q, k] = q * (PI / 2) + k * 0.15, in thousandths
CosSin0(k) ==
    IF k = 0 THEN << 1000, 0 >>
    ELSE IF k = 1 THEN << 989, 149 >>
    ELSE << 989, -149 >>

CosSin(angle) ==
    LET b == CosSin0(angle.k)
    IN  CASE angle.q = 0 -> b
          [] angle.q = 1 -> << -b[2], b[1] >>
          [] angle.q = 2 -> << -b[1], -b[2] >>
          [] OTHER       -> << b[2], -b[1] >>

\* sense without the test of other.isAlive()
senseTheDead(cs, i) ==
    LET seen == { j \in DOMAIN cs :
                    /\ j # i
                    /\ ~(Dist2(cs[i], cs[j]) > sensorLength(cs[i]) * sensorLength(cs[i])) }
    IN  IF seen = {} THEN 0
        ELSE CHOOSE j \in seen :
                \A k \in seen :
                    \/ Dist2(cs[i], cs[j]) < Dist2(cs[i], cs[k])
                    \/ Dist2(cs[i], cs[j]) = Dist2(cs[i], cs[k]) /\ j <= k

\* Creature.sense, the part later code reads: nearestCreature is the first
\* living other creature at the least distance, within sensorLength.  (The
\* eight cone sensor values feed only the brain.)
sense(cs, i) ==
    LET seen == { j \in DOMAIN cs :
                    /\ j # i
                    /\ isAlive(cs[j])
                    /\ ~(Dist2(cs[i], cs[j]) > sensorLength(cs[i]) * sensorLength(cs[i])) }
    IN  IF seen = {} THEN 0
        ELSE CHOOSE j \in seen :
                \A k \in seen :
                    \/ Dist2(cs[i], cs[j]) < Dist2(cs[i], cs[k])
                    \/ Dist2(cs[i], cs[j]) = Dist2(cs[i], cs[k]) /\ j <= k

\* EvolutionLog.log: newest entry first, trimmed to maxEntries
maxEntries == 150

log(es, entry) ==
    LET added == << entry >> \o es
    IN  IF Len(added) > maxEntries THEN SubSeq(added, 1, Len(added) - 1) ELSE added

logDeath(es, c, cause) ==
    log(es, [ type |-> "death", creatureId |-> c.id, other |-> 0, cause |-> cause ])

logKill(es, predator, prey) ==
    log(es, [ type |-> "kill", creatureId |-> predator.id, other |-> prey.id,
              cause |-> "" ])

\* World.spawnMeat(x, y, fromPredator = false, fromHunt = false); energy is
\* 25 + Math.random() * 20
spawnMeat(fs, x, y, energy, fromPredator, fromHunt) ==
    Append(fs, Food(x, y, energy, "meat", fromPredator, fromHunt))

\* energy changes go through here so that the history field wasDead records
\* every point at which the energy was <= 0
SetEnergy(c, e) == [ c EXCEPT !.energy = e, !.wasDead = c.wasDead \/ e <= 0 ]

\* the reward computed after this.kills++
KillFitnessAfterIncrement(c, prey) ==
    1500000 + Round(prey.fitness * 5, 10) + (c.kills + 1) * 200000

\* the reward of a kill: this.fitness += 150 + prey.fitness * 0.5 + this.kills * 20
KillFitness(c, prey) == 1500000 + Round(prey.fitness * 5, 10) + c.kills * 200000

\* the energy of the attacker after a kill
KillEnergy(c, prey) == Min(maxEnergy(c), c.energy + Round(maxEnergy(prey) * 8, 10))

\* attack range based on size: this.radius + prey.radius + 15
AttackRange(c, prey) == radius(c) + radius(prey) + 1500

\* history: the last successful attack of the update under way, with the
\* attacker and the prey right before it (in W) and right after it (in W1)
NoStrike == [ hit |-> FALSE ]

Struck(W1, W, i, n) ==
    [ creatures |-> W1.creatures, foods |-> W1.foods, entries |-> W1.entries,
      strike |-> [ hit |-> TRUE, attacker |-> W.creatures[i], prey |-> W.creatures[n],
                   attackerAfter |-> W1.creatures[i], preyAfter |-> W1.creatures[n],
                   foods |-> W.foods, foodsAfter |-> W1.foods ] ]

\* the successful attack of creature i on its nearest creature n: damage,
\* cooldown and, if the prey dies, the kill's reward, log entries and meat
Strike(W, i, n, meatEnergy) ==
    LET c1  == [ W.creatures[i] EXCEPT !.attackCooldown = attackCooldownMax(W.creatures[i]) ]
        hit == SetEnergy(W.creatures[n], W.creatures[n].energy - attackPower(W.creatures[i]))
    IN  IF hit.energy <= 0
        THEN Struck([ creatures |->
                        [ W.creatures EXCEPT
                            ![n] = hit,
                            ![i] = [ SetEnergy(c1, KillEnergy(c1, hit)) EXCEPT
                                       !.fitness = c1.fitness + KillFitness(c1, hit),
                                       !.kills = c1.kills + 1 ] ],
                      entries |-> logDeath(logKill(W.entries, c1, hit), hit, "hunted"),
                      \* this.world.spawnMeat(prey.x, prey.y): both flags default
                      foods |-> spawnMeat(W.foods, hit.x, hit.y, meatEnergy,
                                          FALSE, FALSE) ],
                    W, i, n)
        ELSE Struck([ creatures |-> [ W.creatures EXCEPT ![n] = hit, ![i] = c1 ],
                      entries |-> W.entries,
                      foods |-> W.foods ],
                    W, i, n)

\* Creature.tryAttack on the world W = [creatures, foods, entries, strike]
tryAttack(W, i, meatEnergy) ==
    LET c == W.creatures[i]
        n == c.nearestCreature
    IN  IF n = 0 THEN W
        ELSE IF W.creatures[n].isPredator THEN W
        ELSE IF Dist2(c, W.creatures[n])
                  < AttackRange(c, W.creatures[n]) * AttackRange(c, W.creatures[n])
             THEN Strike(W, i, n, meatEnergy)
             ELSE W

\* Creature.act, outputs 0 and 1: thrust and turning
Steer(W, i, out) ==
    LET c == W.creatures[i]
    IN  [ W EXCEPT !.creatures[i] =
            [ c EXCEPT !.speed = Max(-Round(maxSpeed(c), 2),
                                     Min(maxSpeed(c), c.speed + out[1] * 50)),
                       !.angle.k = c.angle.k + out[2] ] ]

\* Creature.act, output 2: boost when outputs[2] > 0.5
Boost(W, i, out) ==
    LET c == W.creatures[i]
    IN  IF 2 * out[3] > 1
        THEN [ W EXCEPT !.creatures[i] =
                 SetEnergy([ c EXCEPT !.speed = Round(13 * c.speed, 10) ],
                           c.energy - 30 * c.traits.metabolism) ]
        ELSE W

\* no auto-attack: the attack is left to the brain's output
CloseRangeNone(c, prey) == 0

\* the auto-attack margin: this.radius + this.nearestCreature.radius + 20
CloseRange(c, prey) == radius(c) + radius(prey) + 2000

\* Creature.act, output 3: a predator whose cooldown has elapsed attacks a
\* living prey that is its nearest creature when it is close or the brain
\* asks for it (outputs[3] > 0.5)
Attack(W, i, out, meatEnergy) ==
    LET c == W.creatures[i]
        n == c.nearestCreature
    IN  IF c.isPredator /\ c.attackCooldown <= 0
        THEN IF n # 0 /\ ~W.creatures[n].isPredator /\ isAlive(W.creatures[n])
             THEN IF \/ Dist2(c, W.creatures[n])
                          < CloseRange(c, W.creatures[n]) * CloseRange(c, W.creatures[n])
                     \/ 2 * out[4] > 1
                  THEN tryAttack(W, i, meatEnergy)
                  ELSE W
             ELSE W
        ELSE W

\* Creature.act, the end: apply friction
Friction(W, i) ==
    [ W EXCEPT !.creatures[i].speed = Round(98 * W.creatures[i].speed, 100) ]

\* Creature.act; out = << thrust, turn, boost, attack >>
act(W, i, out, meatEnergy) ==
    Friction(Attack(Boost(Steer(W, i, out), i, out), i, out, meatEnergy), i)

\* the food test without the filter by food type
EdibleOfAnyType(c, f) ==
    /\ ~f.consumed
    /\ Dist2(c, f) < (radius(c) + FoodRadius(f)) * (radius(c) + FoodRadius(f))

\* a creature eats the food items of its kind that it overlaps
Edible(c, f) ==
    /\ ~f.consumed
    /\ (c.isPredator => f.type = "meat")
    /\ (~c.isPredator => f.type = "plant")
    /\ Dist2(c, f) < (radius(c) + FoodRadius(f)) * (radius(c) + FoodRadius(f))

Eat(c, f) ==
    [ SetEnergy(c, Min(maxEnergy(c), c.energy + f.energy)) EXCEPT
        !.foodEaten = c.foodEaten + 1,
        !.fitness = c.fitness + f.energy ]

\* the food-collision loop of Creature.update, from food index k on
RECURSIVE EatFrom(_, _, _)
EatFrom(W, i, k) ==
    IF k > Len(W.foods) THEN W
    ELSE IF Edible(W.creatures[i], W.foods[k])
         THEN EatFrom([ W EXCEPT !.creatures[i] = Eat(W.creatures[i], W.foods[k]),
                                 !.foods[k].consumed = TRUE ], i, k + 1)
         ELSE EatFrom(W, i, k + 1)

\* wrap around world edges
Wrap(v, limit) ==
    IF v < 0 THEN v + limit
    ELSE IF v > limit THEN v - limit ELSE v

\* energy cost for living and moving
EnergyCost(c) ==
    calculateTraitEffects(c.traits).energyCostBase
      + Round(Abs(c.speed) * calculateTraitEffects(c.traits).energyCostMove, 100)

\* the cooldown counting down by two
CooldownByTwo(W, i) ==
    IF W.creatures[i].attackCooldown > 0
    THEN [ W EXCEPT !.creatures[i].age = @ + 1, !.creatures[i].attackCooldown = @ - 2 ]
    ELSE [ W EXCEPT !.creatures[i].age = @ + 1 ]

\* Creature.update, the head: this.age++, and the cooldown counts down
Cooldown(W, i) ==
    IF W.creatures[i].attackCooldown > 0
    THEN [ W EXCEPT !.creatures[i].age = @ + 1, !.creatures[i].attackCooldown = @ - 1 ]
    ELSE [ W EXCEPT !.creatures[i].age = @ + 1 ]

Sensed(W, i) == [ W EXCEPT !.creatures[i].nearestCreature = sense(W.creatures, i) ]

\* Creature.update: move by the heading and the speed, then wrap
Move(W, i, w, h) ==
    LET c == W.creatures[i]
    IN  [ W EXCEPT !.creatures[i] =
            [ c EXCEPT !.x = Wrap(c.x + Round(CosSin(c.angle)[1] * c.speed, 1000), w),
                       !.y = Wrap(c.y + Round(CosSin(c.angle)[2] * c.speed, 1000), h) ] ]

\* Creature.update: energy cost for living and moving
Pay(W, i) ==
    [ W EXCEPT !.creatures[i] =
        SetEnergy(W.creatures[i], W.creatures[i].energy - EnergyCost(W.creatures[i])) ]

\* the update charging 0.01 of fitness for the tick
SurviveCharged(W, i) == [ W EXCEPT !.creatures[i].fitness = @ - 100 ]

\* Creature.update: bonus fitness for surviving, 0.01
Survive(W, i) == [ W EXCEPT !.creatures[i].fitness = @ + 100 ]

\* Creature.update of creature i in a world of size w x h
update(W, i, out, meatEnergy, w, h) ==
    Survive(EatFrom(Pay(Move(act(Sensed(Cooldown(W, i), i), i, out, meatEnergy),
                             i, w, h), i), i, 1), i)

---------------------------------------------------------------------------
(* GeneticAlgorithm.js *)

\* GeneticAlgorithm.constructor: options.x || default (0 stands for an option
\* that is absent or zero)
GeneticAlgorithm(options) ==
    [ tournamentSize    |-> IF options.tournamentSize # 0
                            THEN options.tournamentSize ELSE 5,
      minSpeciesCount   |-> IF options.minSpeciesCount # 0
                            THEN options.minSpeciesCount ELSE 5,
      speciesEliteCount |-> IF options.speciesEliteCount # 0
                            THEN options.speciesEliteCount ELSE 2 ]

\* [...q].sort((a, b) => b.fitness - a.fitness): stable, fitness descending
RECURSIVE InsertByFitness(_, _)
InsertByFitness(sorted, c) ==
    IF sorted = << >> THEN << c >>
    ELSE IF Head(sorted).fitness >= c.fitness
         THEN << Head(sorted) >> \o InsertByFitness(Tail(sorted), c)
         ELSE << c >> \o sorted

RECURSIVE SortFrom(_, _)
SortFrom(sorted, rest) ==
    IF rest = << >> THEN sorted
    ELSE SortFrom(InsertByFitness(sorted, Head(rest)), Tail(rest))

SortByFitness(q) == SortFrom(<< >>, q)

IsPredator(c) == c.isPredator

IsPrey(c) == ~c.isPredator

\* population.filter(c => c.isPredator).sort(...) and its prey counterpart
SpeciesOf(pop, predator) ==
    SortByFitness(IF predator THEN Filter(pop, IsPredator) ELSE Filter(pop, IsPrey))

\* the n members at the low end of the species' ranking
selectTopNFromSpeciesTail(cs, n) == SubSeq(cs, Len(cs) - Min(n, Len(cs)) + 1, Len(cs))

\* selectTopNFromSpecies
selectTopNFromSpecies(cs, n) == SubSeq(cs, 1, Min(n, Len(cs)))

\* mutate / mutateAdaptive: wnoise[i] is the noise added to weight i (0 when
\* Math.random() >= rate for that weight)
mutate(weights, wnoise) == [ i \in DOMAIN weights |-> weights[i] + wnoise[i] ]

\* crossover: mask[i] is Math.random() < 0.5 for weight i
crossover(weights1, weights2, mask) ==
    [ i \in DOMAIN weights1 |-> IF mask[i] THEN weights1[i] ELSE weights2[i] ]

\* the k-th of a run of random outcomes given as a repeating pattern
Cyclic(q, k) == q[((k - 1) % Len(q)) + 1]

\* tournamentSelect: the i-th draw d stands for the index
\* Math.floor(Math.random() * sortedPopulation.length) = d % length
RECURSIVE TournamentFrom(_, _, _, _, _)
TournamentFrom(sorted, size, draws, i, best) ==
    IF ~(i <= size) THEN best
    ELSE TournamentFrom(sorted, size, draws, i + 1,
             IF best = << >> THEN << sorted[(Cyclic(draws, i) % Len(sorted)) + 1] >>
             ELSE IF sorted[(Cyclic(draws, i) % Len(sorted)) + 1].fitness > best[1].fitness
                  THEN << sorted[(Cyclic(draws, i) % Len(sorted)) + 1] >>
                  ELSE best)

\* tournamentSelect returning the last individual it drew
tournamentSelectLast(sorted, size, draws) ==
    sorted[(Cyclic(draws, size) % Len(sorted)) + 1]

tournamentSelect(sorted, size, draws) ==
    TournamentFrom(sorted, size, draws, 1, << >>)[1]

\* the elite without elite.brain.setWeights(parent.brain.getWeights())
EliteOfFreshBrain(parent, id, place) ==
    [ Creature(id, place.x, place.y, place.angle, parent.isPredator, parent.traits)
        EXCEPT !.isElite = TRUE ]

\* the elite clone of a parent (step 1)
EliteOf(parent, id, place) ==
    [ setWeights(Creature(id, place.x, place.y, place.angle,
                          parent.isPredator, parent.traits),
                 getWeights(parent))
        EXCEPT !.isElite = TRUE ]

\* elitism over the whole population instead of each species
ElitesOfGlobal(pop, opts) ==
    selectTopNFromSpecies(SortByFitness(pop), opts.speciesEliteCount)

\* [...predatorElites, ...preyElites]
ElitesOf(pop, opts) ==
    selectTopNFromSpecies(SpeciesOf(pop, TRUE), opts.speciesEliteCount)
      \o selectTopNFromSpecies(SpeciesOf(pop, FALSE), opts.speciesEliteCount)

\* EvolutionLog.logElite for the parents from the k-th on
RECURSIVE LogElites(_, _, _)
LogElites(es, parents, k) ==
    IF k > Len(parents) THEN es
    ELSE LogElites(log(es, [ type |-> "elite", creatureId |-> parents[k].id,
                             other |-> k, cause |-> "",
                             fitness |-> parents[k].fitness,
                             isPredator |-> parents[k].isPredator ]),
                   parents, k + 1)

\* the clones with their parents' fitness carried over
ClonesOfKeepingFitness(parents, idc, place, es) ==
    [ newGen  |-> [ k \in 1..Len(parents) |->
                      [ EliteOf(parents[k], idc + k, place)
                          EXCEPT !.fitness = parents[k].fitness ] ],
      entries |-> LogElites(es, parents, 1) ]

\* the elite clones of step 1 and their log entries
ClonesOf(parents, idc, place, es) ==
    [ newGen  |-> [ k \in 1..Len(parents) |-> EliteOf(parents[k], idc + k, place) ],
      entries |-> LogElites(es, parents, 1) ]

\* step 1 of evolve; the result is G = [newGen, entries]
EvolveElites(pop, opts, idc, place, es) == ClonesOf(ElitesOf(pop, opts), idc, place, es)

\* the mutant made of a struggling species' member (step 2)
MutantOf(weak, id, place, predator, case) ==
    setWeights(Creature(id, place.x, place.y, place.angle, predator,
                        mutateTraits(weak.traits, case.noise)),
               mutate(getWeights(weak), case.wnoise))

\* step 2 deciding by the species' count in the input instead of newGen
RescueCountByInput(species, nElites, current, opts) ==
    IF Len(species) < opts.minSpeciesCount /\ Len(species) > 0
    THEN Min(opts.minSpeciesCount - current, Len(species) - nElites)
    ELSE 0

\* how many mutants step 2 adds for a species, given its sorted members, the
\* number of its elites and the species' count in newGen
RescueCount(species, nElites, current, opts) ==
    IF current < opts.minSpeciesCount /\ Len(species) > 0
    THEN Min(opts.minSpeciesCount - current, Len(species) - nElites)
    ELSE 0

\* step 2 with the loop bound i < species.length and the template species[i]
RescueFromStart(species, nElites, opts, predator, current, firstId, place, cases, offset) ==
    [ k \in 1..(IF current < opts.minSpeciesCount /\ Len(species) > 0
                THEN Min(opts.minSpeciesCount - current, Len(species))
                ELSE 0) |->
        MutantOf(species[k], firstId + k, place, predator, Cyclic(cases, offset + k)) ]

\* the mutants step 2 adds for one species (sorted, with nElites elites): the
\* k-th mutant is made of species[nElites + k] with the random outcome
\* cases[offset + k]
RescueFrom(species, nElites, opts, predator, current, firstId, place, cases, offset) ==
    [ k \in 1..RescueCount(species, nElites, current, opts) |->
        MutantOf(species[nElites + k], firstId + k, place, predator,
                 Cyclic(cases, offset + k)) ]

RescueOf(pop, opts, predator, current, firstId, place, cases, offset) ==
    RescueFrom(SpeciesOf(pop, predator),
               Len(selectTopNFromSpecies(SpeciesOf(pop, predator),
                                         opts.speciesEliteCount)),
               opts, predator, current, firstId, place, cases, offset)

Count(q, Keep(_)) == Len(Filter(q, Keep))

\* step 2 for the prey, after the predators' mutants preds
RescuePrey(G, preds, pop, opts, idc, place, cases) ==
    [ G EXCEPT !.newGen =
        G.newGen \o preds
          \o RescueOf(pop, opts, FALSE, Count(G.newGen, IsPrey),
                      idc + Len(G.newGen) + Len(preds), place, cases, Len(preds)) ]

\* step 2 of evolve: currentPredators and currentPrey are counted before
\* either species is rescued
EvolveRescue(G, pop, opts, idc, place, cases) ==
    RescuePrey(G,
               RescueOf(pop, opts, TRUE, Count(G.newGen, IsPredator),
                        idc + Len(G.newGen), place, cases, 0),
               pop, opts, idc, place, cases)

\* the offspring starting with its first parent's energy and kills
OffspringOfParentEnergy(parent1, parent2, id, place, case) ==
    [ setWeights(Creature(id, place.x, place.y, place.angle,
                          IF case.flip
                          THEN ~(IF case.inheritFirst THEN parent1.isPredator
                                 ELSE parent2.isPredator)
                          ELSE (IF case.inheritFirst THEN parent1.isPredator
                                ELSE parent2.isPredator),
                          mutateTraits(crossoverTraits(parent1.traits, parent2.traits,
                                                       case.blend),
                                       case.noise)),
                 mutate(crossover(getWeights(parent1), getWeights(parent2), case.mask),
                        case.wnoise))
        EXCEPT !.energy = parent1.energy, !.kills = parent1.kills ]

\* the offspring of two tournament winners
Offspring(parent1, parent2, id, place, case) ==
    setWeights(Creature(id, place.x, place.y, place.angle,
                        IF case.flip
                        THEN ~(IF case.inheritFirst THEN parent1.isPredator
                               ELSE parent2.isPredator)
                        ELSE (IF case.inheritFirst THEN parent1.isPredator
                              ELSE parent2.isPredator),
                        mutateTraits(crossoverTraits(parent1.traits, parent2.traits,
                                                     case.blend),
                                     case.noise)),
               mutate(crossover(getWeights(parent1), getWeights(parent2), case.mask),
                      case.wnoise))

\* newGen.push(child) and EvolutionLog.logBirth
Born(G, child, parent1) ==
    [ newGen  |-> Append(G.newGen, child),
      entries |-> log(G.entries, [ type |-> "birth", creatureId |-> child.id,
                                   other |-> parent1.id, cause |-> "" ]) ]

Bred(G, parent1, parent2, id, place, case) ==
    Born(G, Offspring(parent1, parent2, id, place, case), parent1)

\* one iteration of step 3
EvolveChild(G, pop, opts, idc, place, case) ==
    Bred(G,
         tournamentSelect(SortByFitness(pop), opts.tournamentSize, case.draws1),
         tournamentSelect(SortByFitness(pop), opts.tournamentSize, case.draws2),
         idc + Len(G.newGen) + 1, place, case)

\* step 3: while (newGen.length < popSize); cases are the random outcomes by
\* the child's position in newGen
RECURSIVE EvolveChildren(_, _, _, _, _, _)
EvolveChildren(G, pop, opts, idc, place, cases) ==
    IF ~(Len(G.newGen) < Len(pop)) THEN G
    ELSE EvolveChildren(
             EvolveChild(G, pop, opts, idc, place, Cyclic(cases, Len(G.newGen) + 1)),
             pop, opts, idc, place, cases)

\* GeneticAlgorithm.evolve(population, createCreature, evolutionLog)
evolve(pop, opts, idc, place, es, mutants, kids) ==
    EvolveChildren(
        EvolveRescue(EvolveElites(pop, opts, idc, place, es),
                     pop, opts, idc, place, mutants),
        pop, opts, idc, place, kids)

---------------------------------------------------------------------------
(* World.js *)

\* the quota without Math.max(Math.floor(this.foodCount * 0.6), adjustedCount)
FoodQuotaNoFloor(fc, bal, herbivores, alive) ==
    (fc * (150 * alive - herbivores * bal.foodScalingFactor)) \div (100 * alive)

\* the quota growing with the herbivores' share
FoodQuotaRising(fc, bal, herbivores, alive) ==
    LET adjustedCount ==
            (fc * (150 * alive + herbivores * bal.foodScalingFactor)) \div (100 * alive)
    IN  Max((fc * 6) \div 10, adjustedCount)

\* the quota for given counts of living herbivores and living creatures:
\* max(floor(foodCount * 0.6), floor(foodCount * (1.5 - ratio * scalingFactor)))
FoodQuota(fc, bal, herbivores, alive) ==
    LET adjustedCount ==
            (fc * (150 * alive - herbivores * bal.foodScalingFactor)) \div (100 * alive)
    IN  Max((fc * 6) \div 10, adjustedCount)

\* World.calculateFoodCount
calculateFoodCount(cs, fc, bal) ==
    IF ~bal.dynamicFoodEnabled THEN fc
    ELSE LET alive == Filter(cs, isAlive)
         IN  IF Len(alive) = 0 THEN fc
             ELSE FoodQuota(fc, bal, Count(alive, IsPrey), Len(alive))

\* World.addRandomFood: spot is the random position and energy drawn
addRandomFood(fs, type, spot) ==
    Append(fs, Food(spot.x, spot.y,
                    IF type = "meat" THEN spot.meatEnergy ELSE spot.plantEnergy,
                    type, FALSE, FALSE))

\* n calls of addRandomFood; spots is the cyclic sequence of random draws
RECURSIVE AddFoods(_, _, _, _)
AddFoods(fs, type, n, spots) ==
    IF n <= 0 THEN fs
    ELSE AddFoods(addRandomFood(fs, type, spots[((Len(fs)) % Len(spots)) + 1]),
                  type, n - 1, spots)

\* World.spawnFood
spawnFood(cs, fc, mc, bal, spots) ==
    AddFoods(AddFoods(<< >>, "plant", calculateFoodCount(cs, fc, bal), spots),
             "meat", mc, spots)

\* World.applyPopulationPenalties
applyPopulationPenalties(cs, bal) ==
    LET alive == Filter(cs, isAlive)
        predators == Count(alive, IsPredator)
        herbivores == Count(alive, IsPrey)
        \* herbivoreRatio > overpopulationThreshold, predatorRatio > predatorThreshold
        herbivoresOver == 100 * herbivores > bal.overpopulationThreshold * Len(alive)
        predatorsOver == 100 * predators > bal.predatorThreshold * Len(alive)
    IN  IF Len(alive) = 0 THEN cs
        ELSE [ k \in DOMAIN cs |->
                 IF ~cs[k].isPredator /\ herbivoresOver
                 THEN [ cs[k] EXCEPT !.fitness =
                          Round(cs[k].fitness * (100 - bal.herbivorePenalty), 100) ]
                 ELSE IF cs[k].isPredator /\ predatorsOver
                 THEN [ cs[k] EXCEPT !.fitness =
                          Round(cs[k].fitness * (100 - bal.predatorPenalty), 100) ]
                 ELSE cs[k] ]

\* the final fitness of nextGeneration: living creatures add their energy
FinalFitness(cs) ==
    [ k \in DOMAIN cs |->
        IF isAlive(cs[k]) THEN [ cs[k] EXCEPT !.fitness = @ + cs[k].energy ]
        ELSE cs[k] ]

MaxOf(S) == CHOOSE m \in S : \A n \in S : n <= m

\* GeneticAlgorithm.getStats: avg is sum / length, kept to 1/10000
getStats(pop) ==
    [ avg |-> SumSeq([ k \in DOMAIN pop |-> pop[k].fitness ]) \div Len(pop),
      max |-> MaxOf({ pop[k].fitness : k \in DOMAIN pop }),
      min |-> -MaxOf({ -pop[k].fitness : k \in DOMAIN pop }),
      predatorCount |-> Count(pop, IsPredator),
      preyCount |-> Len(pop) - Count(pop, IsPredator),
      totalKills |-> SumSeq([ k \in DOMAIN pop |-> pop[k].kills ]) ]

\* World.nextGeneration: record history, keeping the last 50 generations
RecordHistory(history, gen, gaStats) ==
    LET pushed == Append(history,
                         [ generation |-> gen, avgFitness |-> gaStats.avg,
                           maxFitness |-> gaStats.max, minFitness |-> gaStats.min,
                           predators |-> gaStats.predatorCount,
                           herbivores |-> gaStats.preyCount ])
    IN  IF Len(pushed) > 50 THEN Tail(pushed) ELSE pushed

\* World.updateStats: { ...this.stats, ... } keeps the history
updateStats(st, cs, gen, tk) ==
    LET alive == Filter(cs, isAlive)
    IN  [ history |-> st.history,
          generation |-> gen,
          tick |-> tk,
          alive |-> Len(alive),
          predators |-> Count(alive, IsPredator),
          herbivores |-> Count(alive, IsPrey),
          totalFitness |-> SumSeq([ k \in DOMAIN cs |-> cs[k].fitness ]),
          maxFitness |-> MaxOf({ cs[k].fitness : k \in DOMAIN cs }),
          kills |-> SumSeq([ k \in DOMAIN cs |-> cs[k].kills ]) ]

\* the end of nextGeneration: every creature gets a random position and angle
Randomized(cs, places) ==
    [ k \in DOMAIN cs |->
        [ cs[k] EXCEPT !.x = places[k].x, !.y = places[k].y,
                       !.angle = places[k].angle, !.deathLogged = FALSE ] ]

\* the reset of nextGeneration with the food spawned before the creatures are
\* replaced
ResetWorldFoodFirst(G, scored, fc, mc, bal, places, spots) ==
    [ creatures  |-> Randomized(G.newGen, places),
      foods      |-> spawnFood(scored, fc, mc, bal, spots),
      entries    |-> G.entries,
      population |-> scored,
      gaStats    |-> getStats(scored) ]

\* World.nextGeneration on the world W = [creatures, foods, entries]; the
\* result also carries the population handed to evolve
ResetWorld(G, scored, fc, mc, bal, places, spots) ==
    [ creatures  |-> Randomized(G.newGen, places),
      foods      |-> spawnFood(G.newGen, fc, mc, bal, spots),
      entries    |-> G.entries,
      population |-> scored,
      gaStats    |-> getStats(scored) ]

logGeneration(es, gen) ==
    log(es, [ type |-> "generation", creatureId |-> 0, other |-> gen, cause |-> "" ])

EvolveScored(scored, es, gen, fc, mc, bal, opts, idc, places, spots, mutants, kids) ==
    ResetWorld(evolve(scored, opts, idc, places[1], logGeneration(es, gen),
                      mutants, kids),
               scored, fc, mc, bal, places, spots)

\* nextGeneration with the penalties applied before the energy bonus
nextGenerationPenaltyFirst(W, gen, fc, mc, bal, opts, idc, places, spots, mutants, kids) ==
    EvolveScored(FinalFitness(applyPopulationPenalties(W.creatures, bal)),
                 W.entries, gen, fc, mc, bal, opts, idc, places, spots, mutants, kids)

\* World.nextGeneration: final fitness, penalties, statistics, evolve, reset
nextGeneration(W, gen, fc, mc, bal, opts, idc, places, spots, mutants, kids) ==
    EvolveScored(applyPopulationPenalties(FinalFitness(W.creatures), bal),
                 W.entries, gen, fc, mc, bal, opts, idc, places, spots, mutants, kids)

\* the death pass removing the dead from the array when it is done
RECURSIVE LogDeathsRemoving(_, _, _)
LogDeathsRemoving(W, k, meatEnergy) ==
    IF k > Len(W.creatures)
    THEN [ W EXCEPT !.creatures = Filter(W.creatures, isAlive) ]
    ELSE LET c == W.creatures[k]
         IN  IF ~isAlive(c) /\ c.energy <= 0 /\ ~c.deathLogged
             THEN LET marked == [ W EXCEPT !.creatures[k].deathLogged = TRUE ]
                      recentKillLog ==
                          \E e \in Range(W.entries) :
                              e.type = "death" /\ e.creatureId = c.id
                  IN  IF recentKillLog THEN LogDeathsRemoving(marked, k + 1, meatEnergy)
                      ELSE LogDeathsRemoving(
                             [ marked EXCEPT
                                 !.entries = logDeath(W.entries, c, "starvation"),
                                 !.foods = spawnMeat(W.foods, c.x, c.y, meatEnergy,
                                                     c.isPredator, FALSE) ],
                             k + 1, meatEnergy)
             ELSE LogDeathsRemoving(W, k + 1, meatEnergy)

\* the once-per-call death pass of World.update over creatures k..: a dead
\* creature not yet logged is logged as starved, and leaves meat, unless the
\* log holds a death entry for it
RECURSIVE LogDeaths(_, _, _)
LogDeaths(W, k, meatEnergy) ==
    IF k > Len(W.creatures) THEN W
    ELSE LET c == W.creatures[k]
         IN  IF ~isAlive(c) /\ c.energy <= 0 /\ ~c.deathLogged
             THEN LET marked == [ W EXCEPT !.creatures[k].deathLogged = TRUE ]
                      recentKillLog ==
                          \E e \in Range(W.entries) :
                              e.type = "death" /\ e.creatureId = c.id
                  IN  IF recentKillLog THEN LogDeaths(marked, k + 1, meatEnergy)
                      ELSE LogDeaths(
                             [ marked EXCEPT
                                 !.entries = logDeath(W.entries, c, "starvation"),
                                 !.foods = spawnMeat(W.foods, c.x, c.y, meatEnergy,
                                                     c.isPredator, FALSE) ],
                             k + 1, meatEnergy)
             ELSE LogDeaths(W, k + 1, meatEnergy)

IsConsumedPlant(f) == f.consumed /\ f.type = "plant"

IsConsumedMeat(f) == f.consumed /\ f.type = "meat"

IsLeft(f) == ~f.consumed

IsPlant(f) == f.type = "plant"

\* the once-per-call respawn of World.update
Respawn(fs, cs, fc, bal, spots) ==
    LET consumedPlants == Count(fs, IsConsumedPlant)
        consumedMeat == Count(fs, IsConsumedMeat)
        dynamicFoodCount == calculateFoodCount(cs, fc, bal)
        left == Filter(fs, IsLeft)
        plantsToSpawn == Min(consumedPlants, dynamicFoodCount - Count(left, IsPlant))
    IN  \* consumedPlants > dynamicFoodCount * 0.3 || consumedMeat > 0
        IF 10 * consumedPlants > 3 * dynamicFoodCount \/ consumedMeat > 0
        THEN AddFoods(AddFoods(left, "plant", plantsToSpawn, spots),
                      "meat", (consumedMeat * 3) \div 10, spots)
        ELSE fs

---------------------------------------------------------------------------
(* Enumerated inputs: initial worlds and random outcomes *)

\* trait vectors of the initial creatures
HunterTraits == [ size |-> 100, metabolism |-> 100, aggression |-> 100, vision |-> 100 ]

GrazerTraits == [ size |-> 60, metabolism |-> 50, aggression |-> 0, vision |-> 50 ]

\* what a living creature looks like after the first hundred ticks of a
\* generation: species and traits, an energy in (0, maxEnergy], the fitness
\* gathered so far (0.01 a tick, the food eaten, the kill's reward) and the
\* number of its kills
CreatureKinds ==
    { [ isPredator |-> TRUE,  traits |-> HunterTraits, energy |-> 800000,
        fitness |-> 10000, kills |-> 0 ],
      [ isPredator |-> TRUE,  traits |-> HunterTraits, energy |-> 800000,
        fitness |-> 1511000, kills |-> 1 ],
      [ isPredator |-> TRUE,  traits |-> HunterTraits, energy |-> 100,
        fitness |-> 10000, kills |-> 0 ],
      [ isPredator |-> FALSE, traits |-> GrazerTraits, energy |-> 544000,
        fitness |-> 10000, kills |-> 0 ],
      [ isPredator |-> FALSE, traits |-> GrazerTraits, energy |-> 200000,
        fitness |-> 110000, kills |-> 0 ],
      [ isPredator |-> FALSE, traits |-> GrazerTraits, energy |-> 100,
        fitness |-> 110000, kills |-> 0 ] }

Heading0 == [ q |-> 0, k |-> 0 ]

\* positions (1/100 pixel).  From Home: Near is inside the attack range of a
\* hunter and a grazer (34.2 px), Gap is between the attack range and the
\* auto-attack margin (39.2 px), Far is outside both
Home == [ x |-> 5000, y |-> 5000, angle |-> Heading0 ]

Near == [ x |-> 7000, y |-> 5000, angle |-> Heading0 ]

Gap == [ x |-> 8700, y |-> 5000, angle |-> Heading0 ]

Far == [ x |-> 15000, y |-> 5000, angle |-> Heading0 ]

SecondPlaces == { Near, Gap, Far }

\* the random positions nextGeneration draws, by creature index
PlacePool == { << Home, Near, Far, Gap >>, << Far, Home, Gap, Near >> }

\* the random draws of addRandomFood and the energy of spawned meat
SpotPool ==
    { << [ x |-> 7000, y |-> 5000, plantEnergy |-> 100000, meatEnergy |-> 240000 ],
         [ x |-> 5000, y |-> 5000, plantEnergy |-> 100000, meatEnergy |-> 240000 ] >> }

MeatEnergies == { 320000 }

\* Math.random() * this.width and Math.random() * this.height: a position of
\* the pools is the draw in a world of 200 by 100 pixels
Within(p, w, h) == [ p EXCEPT !.x = (@ * w) \div 20000, !.y = (@ * h) \div 10000 ]

PlacesWithin(w, h) ==
    { [ k \in DOMAIN places |-> Within(places[k], w, h) ] : places \in PlacePool }

SpotsWithin(w, h) ==
    { [ k \in DOMAIN spots |-> Within(spots[k], w, h) ] : spots \in SpotPool }

\* the brain's outputs << thrust, turn, boost, attack >>
Outputs == { << 0, 0, 0, 0 >>, << 0, 0, 1, 1 >>, << 1, 1, 0, 0 >> }

\* the angles the cos/sin table covers
AngleInTable(angle) == angle.k \in { -1, 0, 1 }

\* random outcomes of mutateTraits and of mutate / mutateAdaptive
NoNoise == [ key \in DOMAIN TRAIT_DEFINITIONS |-> [ hit |-> FALSE, by |-> 0 ] ]

NoisePool ==
    { NoNoise,
      [ key \in DOMAIN TRAIT_DEFINITIONS |-> [ hit |-> TRUE, by |-> 100 ] ],
      [ key \in DOMAIN TRAIT_DEFINITIONS |-> [ hit |-> TRUE, by |-> -100 ] ],
      [ NoNoise EXCEPT !.size = [ hit |-> TRUE, by |-> 40 ] ] }

NoWeightNoise == [ i \in 1..WeightLen |-> 0 ]

SomeWeightNoise == [ i \in 1..WeightLen |-> IF i = 1 THEN 7 ELSE 0 ]

\* the random outcome of one rescue mutant
MutantCases ==
    { [ noise |-> NoNoise, wnoise |-> NoWeightNoise ] }
      \cup { [ noise |-> n, wnoise |-> SomeWeightNoise ] : n \in NoisePool \ { NoNoise } }

\* the random outcomes of the mutants of one evolve call, as repeating patterns
MutantPool ==
    { << m >> : m \in MutantCases }
      \cup { << [ noise |-> NoNoise, wnoise |-> SomeWeightNoise ],
                [ noise |-> NoNoise, wnoise |-> NoWeightNoise ] >> }

\* the random draws of tournamentSelect, as repeating patterns of indices
DrawPairs ==
    { << << 0 >>, << 0 >> >>, << << 0 >>, << 1 >> >>,
      << << 1 >>, << 2 >> >>, << << 2 >>, << 0, 1 >> >> }

\* the random outcomes of crossoverTraits, mutateTraits, crossover and mutate
\* for one child
GeneCases ==
    { [ blend |-> [ key \in DOMAIN TRAIT_DEFINITIONS |-> 100 ], noise |-> NoNoise,
        mask |-> [ i \in 1..WeightLen |-> TRUE ], wnoise |-> NoWeightNoise ],
      [ blend |-> [ key \in DOMAIN TRAIT_DEFINITIONS |-> 50 ],
        noise |-> [ NoNoise EXCEPT !.size = [ hit |-> TRUE, by |-> 40 ] ],
        mask |-> [ i \in 1..WeightLen |-> i % 2 = 1 ], wnoise |-> SomeWeightNoise ] }

\* the random outcome of one iteration of step 3
ChildCases ==
    { [ draws1 |-> d[1], draws2 |-> d[2], blend |-> g.blend, noise |-> g.noise,
        inheritFirst |-> first, flip |-> flip, mask |-> g.mask, wnoise |-> g.wnoise ] :
        d \in DrawPairs, g \in GeneCases, first \in BOOLEAN, flip \in BOOLEAN }

\* the children's outcomes of the world's evolve calls, as repeating patterns
WorldKidPool ==
    { << c >> : c \in { k \in ChildCases : /\ k.draws1 = << 1 >> /\ k.inheritFirst
                                             /\ k.blend.size = 50 /\ k.flip } }

\* the mutants' outcomes of the world's evolve calls
WorldMutantPool == { << m >> : m \in { k \in MutantCases : k.noise.size.by = 40 } }

PlantAtNear == Food(7000, 5000, 100000, "plant", FALSE, FALSE)

MeatAtHome == Food(5000, 5000, 240000, "meat", FALSE, FALSE)

InitialFoods == { << PlantAtNear, MeatAtHome >>, << MeatAtHome >> }

\* a creature of the initial world
Placed(id, kind, place) ==
    [ Creature(id, place.x, place.y, place.angle, kind.isPredator, kind.traits)
        EXCEPT !.energy = kind.energy, !.fitness = kind.fitness, !.kills = kind.kills,
               !.age = 100, !.wasDead = ~(kind.energy > 0) ]

\* the prey a hunter of the initial world has killed in this generation
\* (fitness 0.2 and age 20 at its death in tick 21), and the log entries of
\* that kill
Carcass(id) ==
    [ Creature(id, Far.x, Far.y, Far.angle, FALSE, GrazerTraits)
        EXCEPT !.energy = -100000, !.fitness = 2000, !.age = 20, !.deathLogged = TRUE,
               !.wasDead = TRUE ]

KillEntries(predator, prey) == logDeath(logKill(<< >>, predator, prey), prey, "hunted")

NoStep == [ kind |-> "none", i |-> 0, before |-> << >>, strike |-> NoStrike ]

\* no quota computed yet
NoQuota == [ herbivores |-> 0, alive |-> 0, quota |-> -1 ]

\* World.constructor: the statistics before the first updateStats
NoStats ==
    [ history |-> << >>, generation |-> 0, tick |-> 0, alive |-> 0,
      predators |-> 0, herbivores |-> 0, totalFitness |-> 0, maxFitness |-> 0,
      kills |-> 0 ]

DefaultBalancing ==
    [ dynamicFoodEnabled |-> TRUE, foodScalingFactor |-> 80,
      overpopulationThreshold |-> 70, herbivorePenalty |-> 15,
      predatorPenalty |-> 10, predatorThreshold |-> 50 ]

\* togglePause always pausing
togglePausePausing(paused) == TRUE

\* World.togglePause: this.isPaused = !this.isPaused
togglePause(paused) == ~paused

\* World.resize: this.width = width; this.height = height
resize(size) == size

\* setSpeed storing its argument as it is
setSpeedUnclamped(n) == n

\* World.setSpeed: Math.max(1, Math.min(10, speed))
setSpeed(n) == Max(1, Min(10, n))

---------------------------------------------------------------------------
(* The world: World.update, stepped through its loops *)

\* a world between two update calls
Init ==
    /\ width = 20000
    /\ height = 10000
    /\ foodCount = 2
    /\ meatCount = 1
    /\ generationLength = 103
    /\ balancing = DefaultBalancing
    /\ \E k1 \in CreatureKinds, k2 \in { k \in CreatureKinds : k.kills = 0 },
          p2 \in SecondPlaces :
          creatures = IF k1.kills = 0
                      THEN << Placed(1, k1, Home), Placed(2, k2, p2) >>
                      ELSE << Placed(1, k1, Home), Placed(2, k2, p2), Carcass(3) >>
    /\ foods \in InitialFoods
    /\ generation = 1
    /\ tick = 100
    /\ isPaused = FALSE
    /\ speed \in { 1, 2 }
    /\ stats = updateStats(NoStats, creatures, generation, tick)
    /\ entries = IF Len(creatures) = 2 THEN << >>
                 ELSE KillEntries(creatures[1], creatures[3])
    /\ creatureIdCounter = Len(creatures)
    /\ ga = GeneticAlgorithm([ tournamentSize |-> 5, minSpeciesCount |-> 0,
                               speciesEliteCount |-> 0 ])
    /\ heap = << >>
    /\ populationSize = Len(creatures)
    /\ pc = "idle"
    /\ s = 0
    /\ ci = 0
    /\ population = << >>
    /\ newGen = << >>
    /\ quotaPrev = NoQuota
    /\ quotaNow = NoQuota
    /\ calls = 0
    /\ ticksInCall = 0
    /\ transitionsInCall = 0
    /\ endSeenInCall = FALSE
    /\ updatedInTick = {}
    /\ lastStep = NoStep

\* the world [creatures, foods, entries] of the current state and the
\* assignment of a world to the next state
World ==
    [ creatures |-> creatures, foods |-> foods, entries |-> entries, strike |-> NoStrike ]

SetWorld(W) ==
    /\ creatures' = W.creatures
    /\ foods' = W.foods
    /\ entries' = W.entries

config == << width, height, populationSize, foodCount, meatCount,
             generationLength, balancing, ga, heap,
             isPaused, speed >>

gaVars == << newGen, quotaPrev, quotaNow >>

\* World.update is called: if (this.isPaused) return; otherwise the speed
\* loop starts
Update ==
    /\ pc = "idle"
    /\ calls < MaxCalls
    /\ generation <= MaxGeneration
    /\ calls' = calls + 1
    /\ ticksInCall' = 0
    /\ transitionsInCall' = 0
    /\ endSeenInCall' = FALSE
    /\ updatedInTick' = {}
    /\ lastStep' = NoStep
    /\ s' = 0
    /\ pc' = IF isPaused THEN "idle"
             ELSE IF 0 < speed THEN "tick" ELSE "frame"
    /\ UNCHANGED << config, gaVars, creatures, foods, generation, tick, stats,
                    entries, creatureIdCounter, ci, population >>

\* the head of a speed-loop iteration: this.tick++ and every food's update
TickBegin ==
    /\ pc = "tick"
    /\ tick' = tick + 1
    /\ foods' = [ k \in DOMAIN foods |-> FoodUpdate(foods[k]) ]
    /\ ci' = 1
    /\ pc' = IF Len(creatures) >= 1 THEN "creatures" ELSE "check"
    /\ ticksInCall' = ticksInCall + 1
    /\ updatedInTick' = {}
    /\ lastStep' = NoStep
    /\ UNCHANGED << config, gaVars, creatures, generation, stats, entries,
                    creatureIdCounter, s, population, calls, transitionsInCall,
                    endSeenInCall >>

\* the world after creature.update(), and what the update did
SetStep(W) ==
    /\ SetWorld(W)
    /\ lastStep' = [ kind |-> "update", i |-> ci, before |-> creatures,
                     strike |-> W.strike ]

\* the creature loop left after its first iteration
LoopCreaturesOnce(i, n) == "check"

\* for (const creature of this.creatures): after creature i of n, the loop
\* goes on or the generation-end check follows
LoopCreatures(i, n) == IF i < n THEN "creatures" ELSE "check"

\* one iteration of the creature loop: if (creature.isAlive()) creature.update()
CreatureStep ==
    /\ pc = "creatures"
    /\ IF isAlive(creatures[ci])
       THEN \E out \in Outputs, meatEnergy \in MeatEnergies :
              /\ AngleInTable([ creatures[ci].angle EXCEPT !.k = @ + out[2] ])
              /\ SetStep(update(World, ci, out, meatEnergy, width, height))
              /\ updatedInTick' = updatedInTick \cup { ci }
       ELSE /\ UNCHANGED << creatures, foods, entries, updatedInTick >>
            /\ lastStep' = [ kind |-> "skip", i |-> ci, before |-> creatures,
                             strike |-> NoStrike ]
    /\ ci' = ci + 1
    /\ pc' = LoopCreatures(ci, Len(creatures))
    /\ UNCHANGED << config, gaVars, generation, tick, stats, creatureIdCounter, s,
                    population, calls, ticksInCall, transitionsInCall,
                    endSeenInCall >>

SetGeneration(W) ==
    /\ SetWorld(W)
    /\ population' = W.population
    /\ stats' = [ stats EXCEPT !.history = RecordHistory(@, generation, W.gaStats) ]
    /\ creatureIdCounter' = creatureIdCounter + Len(W.creatures)

\* the generation ending only after the tick counter has passed its length
generationEndsLate(tk, len, alive) == tk > len \/ alive = 0

\* if (this.tick >= this.generationLength || alive === 0)
generationEnds(tk, len, alive) == tk >= len \/ alive = 0

\* the end of a speed-loop iteration: the generation-end check, and
\* nextGeneration and break when it holds
GenerationCheck ==
    /\ pc = "check"
    /\ lastStep' = NoStep
    /\ LET alive == Count(creatures, isAlive)
       IN  IF generationEnds(tick, generationLength, alive)
           THEN \E places \in PlacesWithin(width, height),
                   spots \in SpotsWithin(width, height),
                   mutants \in WorldMutantPool, kids \in WorldKidPool :
                      /\ SetGeneration(
                             nextGeneration(World, generation, foodCount, meatCount,
                                            balancing, ga, creatureIdCounter, places,
                                            spots, mutants, kids))
                      /\ generation' = generation + 1
                      /\ tick' = 0
                      /\ transitionsInCall' = transitionsInCall + 1
                      /\ endSeenInCall' = TRUE
                      /\ pc' = "frame"
                      /\ s' = s
           ELSE /\ s' = s + 1
                /\ pc' = IF s + 1 < speed THEN "tick" ELSE "frame"
                /\ UNCHANGED << creatures, foods, entries, population, stats,
                                creatureIdCounter, generation, tick,
                                transitionsInCall, endSeenInCall >>
    /\ UNCHANGED << config, gaVars, ci, calls, ticksInCall, updatedInTick >>

SetFrame(W, spots) ==
    /\ creatures' = W.creatures
    /\ entries' = W.entries
    /\ foods' = Respawn(W.foods, W.creatures, foodCount, balancing, spots)
    /\ stats' = updateStats(stats, W.creatures, generation, tick)

\* the once-per-call tail of World.update: the death pass, the respawn and
\* updateStats
FrameEnd ==
    /\ pc = "frame"
    /\ \E meatEnergy \in MeatEnergies, spots \in SpotsWithin(width, height) :
          SetFrame(LogDeaths(World, 1, meatEnergy), spots)
    /\ pc' = "idle"
    /\ lastStep' = NoStep
    /\ UNCHANGED << config, gaVars, generation, tick, creatureIdCounter, s, ci,
                    population, calls, ticksInCall, transitionsInCall,
                    endSeenInCall, updatedInTick >>

\* World.togglePause, called between two update calls; it returns the new flag
TogglePause ==
    /\ pc = "idle"
    /\ isPaused' = togglePause(isPaused)
    /\ lastStep' = [ kind |-> "togglePause", before |-> isPaused,
                     returned |-> isPaused' ]
    /\ UNCHANGED << width, height, populationSize, foodCount, meatCount,
                    generationLength, balancing, heap,
                    ga, speed, gaVars, creatures, foods, generation, tick, stats,
                    entries, creatureIdCounter, s, ci, population, calls, pc,
                    ticksInCall, transitionsInCall, endSeenInCall, updatedInTick >>

\* the arguments setSpeed is called with
SpeedInputs == { -3, 0, 3, 10, 11 }

\* World.setSpeed(n), called between two update calls
SetSpeed ==
    /\ pc = "idle"
    /\ \E n \in SpeedInputs :
          /\ speed' = setSpeed(n)
          /\ lastStep' = NoStep
    /\ UNCHANGED << width, height, populationSize, foodCount, meatCount,
                    generationLength, balancing, heap,
                    ga, isPaused, gaVars, creatures, foods, generation, tick, stats,
                    entries, creatureIdCounter, s, ci, population, calls, pc,
                    ticksInCall, transitionsInCall, endSeenInCall, updatedInTick >>

Next == Update \/ TickBegin \/ CreatureStep \/ GenerationCheck \/ FrameEnd

Spec == Init /\ [][Next]_vars

\* a world of one creature in generation MaxGeneration, under its controls:
\* update, togglePause, setSpeed
InitControls ==
    /\ width = 20000
    /\ height = 10000
    /\ foodCount = 2
    /\ meatCount = 1
    /\ generationLength = 103
    /\ balancing = DefaultBalancing
    /\ \E k \in { k \in CreatureKinds : k.kills = 0 } :
          creatures = << [ Placed(1, k, Home) EXCEPT !.age = 99, !.fitness = @ - 100 ] >>
    /\ foods \in InitialFoods
    /\ generation = MaxGeneration
    /\ tick = 99
    /\ isPaused = FALSE
    /\ speed = 1
    /\ stats = updateStats(NoStats, creatures, generation, tick)
    /\ entries = << >>
    /\ creatureIdCounter = 1
    /\ ga = GeneticAlgorithm([ tournamentSize |-> 5, minSpeciesCount |-> 0,
                               speciesEliteCount |-> 0 ])
    /\ heap = << >>
    /\ populationSize = Len(creatures)
    /\ pc = "idle"
    /\ s = 0
    /\ ci = 0
    /\ population = << >>
    /\ newGen = << >>
    /\ quotaPrev = NoQuota
    /\ quotaNow = NoQuota
    /\ calls = 0
    /\ ticksInCall = 0
    /\ transitionsInCall = 0
    /\ endSeenInCall = FALSE
    /\ updatedInTick = {}
    /\ lastStep = NoStep

\* the sizes of the window: smaller than the world, and larger
ResizeInputs == { [ width |-> 2000, height |-> 2000 ],
                  [ width |-> 30000, height |-> 15000 ] }

\* World.resize(width, height), called between two update calls
Resize ==
    /\ pc = "idle"
    /\ \E size \in ResizeInputs :
          /\ width' = resize(size).width
          /\ height' = resize(size).height
          /\ lastStep' = [ kind |-> "resize", before |-> creatures ]
    /\ UNCHANGED << populationSize, foodCount, meatCount, generationLength,
                    balancing, heap, ga, isPaused, speed, gaVars, creatures, foods,
                    generation, tick, stats, entries, creatureIdCounter, s, ci,
                    population, calls, pc, ticksInCall, transitionsInCall,
                    endSeenInCall, updatedInTick >>

NextControls ==
    Update \/ TickBegin \/ CreatureStep \/ GenerationCheck \/ FrameEnd
           \/ TogglePause \/ SetSpeed

SpecControls == InitControls /\ [][NextControls]_vars

\* a grazer that starved in tick 50 of this generation (fitness 0.5 then); the
\* death pass of that update call logged its death and left its meat
Starved(id) ==
    [ Creature(id, Far.x, Far.y, Far.angle, FALSE, GrazerTraits)
        EXCEPT !.energy = -100, !.fitness = 5000, !.age = 50, !.deathLogged = TRUE,
               !.wasDead = TRUE ]

\* a world of two creatures, one of them starved, under update, togglePause,
\* setSpeed and resize
InitResize ==
    /\ width = 20000
    /\ height = 10000
    /\ foodCount = 2
    /\ meatCount = 1
    /\ generationLength = 103
    /\ balancing = DefaultBalancing
    /\ \E k \in { k \in CreatureKinds : k.kills = 0 } :
          creatures =
             << [ Placed(1, k, Home) EXCEPT !.age = 99, !.fitness = @ - 100 ],
                Starved(2) >>
    /\ \E fs \in InitialFoods :
          foods = Append(fs, [ Food(Far.x, Far.y, 320000, "meat", FALSE, FALSE)
                                 EXCEPT !.age = 49 ])
    /\ generation = MaxGeneration
    /\ tick = 99
    /\ isPaused = FALSE
    /\ speed = 1
    /\ stats = updateStats(NoStats, creatures, generation, tick)
    /\ entries = logDeath(<< >>, creatures[2], "starvation")
    /\ creatureIdCounter = 2
    /\ ga = GeneticAlgorithm([ tournamentSize |-> 5, minSpeciesCount |-> 0,
                               speciesEliteCount |-> 0 ])
    /\ heap = << >>
    /\ populationSize = Len(creatures)
    /\ pc = "idle"
    /\ s = 0
    /\ ci = 0
    /\ population = << >>
    /\ newGen = << >>
    /\ quotaPrev = NoQuota
    /\ quotaNow = NoQuota
    /\ calls = 0
    /\ ticksInCall = 0
    /\ transitionsInCall = 0
    /\ endSeenInCall = FALSE
    /\ updatedInTick = {}
    /\ lastStep = NoStep

NextResize ==
    Update \/ TickBegin \/ CreatureStep \/ GenerationCheck \/ FrameEnd
           \/ TogglePause \/ SetSpeed \/ Resize

SpecResize == InitResize /\ [][NextResize]_vars

\* a world as its constructor leaves it (predators first, every creature as
\* its constructor makes it, the food of spawnFood), with short generations
InitGenerations ==
    /\ width = 20000
    /\ height = 10000
    /\ foodCount = 2
    /\ meatCount = 1
    /\ generationLength \in { 1, 2 }
    /\ balancing = DefaultBalancing
    /\ \E p2 \in SecondPlaces :
          creatures \in
            { << Creature(1, Home.x, Home.y, Home.angle, FALSE, GrazerTraits) >>,
              << Creature(1, Home.x, Home.y, Home.angle, FALSE, GrazerTraits),
                 Creature(2, p2.x, p2.y, p2.angle, FALSE, GrazerTraits) >>,
              << Creature(1, Home.x, Home.y, Home.angle, TRUE, HunterTraits),
                 Creature(2, p2.x, p2.y, p2.angle, FALSE, GrazerTraits) >> }
    /\ \E spots \in SpotsWithin(width, height) :
          foods = spawnFood(creatures, foodCount, meatCount, balancing, spots)
    /\ generation = 1
    /\ tick = 0
    /\ isPaused = FALSE
    /\ speed \in { 1, 2 }
    /\ stats = NoStats
    /\ entries = << >>
    /\ creatureIdCounter = Len(creatures)
    /\ ga = GeneticAlgorithm([ tournamentSize |-> 5, minSpeciesCount |-> 0,
                               speciesEliteCount |-> 0 ])
    /\ heap = << >>
    /\ populationSize = Len(creatures)
    /\ pc = "idle"
    /\ s = 0
    /\ ci = 0
    /\ population = << >>
    /\ newGen = << >>
    /\ quotaPrev = NoQuota
    /\ quotaNow = NoQuota
    /\ calls = 0
    /\ ticksInCall = 0
    /\ transitionsInCall = 0
    /\ endSeenInCall = FALSE
    /\ updatedInTick = {}
    /\ lastStep = NoStep

SpecGenerations == InitGenerations /\ [][Next]_vars

\* a freshly constructed world of a single grazer
InitLone ==
    /\ width = 20000
    /\ height = 10000
    /\ foodCount = 2
    /\ meatCount = 1
    /\ generationLength \in { 1, 2 }
    /\ balancing = DefaultBalancing
    /\ creatures = << Creature(1, Home.x, Home.y, Home.angle, FALSE, GrazerTraits) >>
    /\ \E spots \in SpotsWithin(width, height) :
          foods = spawnFood(creatures, foodCount, meatCount, balancing, spots)
    /\ generation = 1
    /\ tick = 0
    /\ isPaused = FALSE
    /\ speed \in { 1, 2 }
    /\ stats = NoStats
    /\ entries = << >>
    /\ creatureIdCounter = 1
    /\ ga = GeneticAlgorithm([ tournamentSize |-> 5, minSpeciesCount |-> 0,
                               speciesEliteCount |-> 0 ])
    /\ heap = << >>
    /\ populationSize = Len(creatures)
    /\ pc = "idle"
    /\ s = 0
    /\ ci = 0
    /\ population = << >>
    /\ newGen = << >>
    /\ quotaPrev = NoQuota
    /\ quotaNow = NoQuota
    /\ calls = 0
    /\ ticksInCall = 0
    /\ transitionsInCall = 0
    /\ endSeenInCall = FALSE
    /\ updatedInTick = {}
    /\ lastStep = NoStep

\* weak fairness of CreatureStep and of GenerationCheck, with ENABLED written
\* out as the step's guard (the step is possible at its position in update,
\* whatever the world holds)
RunsCreatureStep == []<>(pc # "creatures") \/ []<><<CreatureStep>>_vars

RunsGenerationCheck == []<>(pc # "check") \/ []<><<GenerationCheck>>_vars

\* update is called again and again, never paused, and a call that has
\* begun runs to its end
SpecLone ==
    /\ InitLone /\ [][Next]_vars
    /\ WF_vars(Update) /\ WF_vars(TickBegin) /\ WF_vars(FrameEnd)
    /\ RunsCreatureStep /\ RunsGenerationCheck

\* meat that has aged for n ticks since it was spawned
AgedMeat(n) == [ MeatAtHome EXCEPT !.age = n ]

\* a world of one creature late in a generation of 302 ticks, with
\* meat spawned at the start of the generation or after its first tick
InitDecay ==
    /\ width = 20000
    /\ height = 10000
    /\ foodCount = 2
    /\ meatCount = 1
    /\ generationLength = 302
    /\ balancing = DefaultBalancing
    /\ \E k \in { k \in CreatureKinds : k.kills = 0 } :
          creatures = << [ Placed(1, k, Home) EXCEPT !.age = 298,
                                                     !.fitness = @ + 19800 ] >>
    /\ foods \in { << PlantAtNear, AgedMeat(298) >>, << AgedMeat(297) >>,
                   << AgedMeat(298), AgedMeat(297) >> }
    /\ generation = MaxGeneration
    /\ tick = 298
    /\ isPaused = FALSE
    /\ speed = 1
    /\ stats = updateStats(NoStats, creatures, generation, tick)
    /\ entries = << >>
    /\ creatureIdCounter = 1
    /\ ga = GeneticAlgorithm([ tournamentSize |-> 5, minSpeciesCount |-> 0,
                               speciesEliteCount |-> 0 ])
    /\ heap = << >>
    /\ populationSize = Len(creatures)
    /\ pc = "idle"
    /\ s = 0
    /\ ci = 0
    /\ population = << >>
    /\ newGen = << >>
    /\ quotaPrev = NoQuota
    /\ quotaNow = NoQuota
    /\ calls = 0
    /\ ticksInCall = 0
    /\ transitionsInCall = 0
    /\ endSeenInCall = FALSE
    /\ updatedInTick = {}
    /\ lastStep = NoStep

SpecDecay == InitDecay /\ [][NextControls]_vars


---------------------------------------------------------------------------
(* GeneticAlgorithm.evolve on its own, stepped through its three steps *)

LeanTraits == [ size |-> 120, metabolism |-> 80, aggression |-> 60, vision |-> 100 ]

StoutTraits == [ size |-> 140, metabolism |-> 150, aggression |-> 40, vision |-> 150 ]

\* what a member of a finished generation can look like: species, traits,
\* fitness, energy (dead or alive) and the brain's weights; a member has eaten,
\* and a predator has killed and is cooling down from an attack
Members ==
    { [ isPredator |-> TRUE,  traits |-> HunterTraits, fitness |-> 5000000,
        energy |-> 800000, weight |-> 1 ],
      [ isPredator |-> TRUE,  traits |-> LeanTraits,   fitness |-> 1000000,
        energy |-> 0,      weight |-> 3 ],
      [ isPredator |-> FALSE, traits |-> GrazerTraits, fitness |-> 3000000,
        energy |-> 544000, weight |-> 5 ],
      [ isPredator |-> FALSE, traits |-> StoutTraits,  fitness |-> 3000000,
        energy |-> -5000,  weight |-> 7 ] }

Member(id, m) ==
    [ setWeights(Creature(id, Home.x, Home.y, Home.angle, m.isPredator, m.traits),
                 [ i \in 1..WeightLen |-> m.weight + i ])
        EXCEPT !.fitness = m.fitness, !.energy = m.energy, !.age = 1000,
               !.kills = IF m.isPredator THEN 2 ELSE 0, !.foodEaten = 3,
               !.attackCooldown = IF m.isPredator THEN 5 ELSE 0,
               !.wasDead = ~(m.energy > 0) ]

\* the populations handed to evolve: up to MaxPop members
Populations ==
    UNION { { [ k \in 1..n |-> Member(k, ms[k]) ] : ms \in [ 1..n -> Members ] } :
            n \in 0..MaxPop }

\* the options given to the constructor (0: the option is absent)
OptionPool ==
    { [ tournamentSize |-> 0, minSpeciesCount |-> 0, speciesEliteCount |-> 0 ],
      [ tournamentSize |-> 2, minSpeciesCount |-> 1, speciesEliteCount |-> 1 ],
      [ tournamentSize |-> 2, minSpeciesCount |-> 2, speciesEliteCount |-> 1 ],
      [ tournamentSize |-> 2, minSpeciesCount |-> 3, speciesEliteCount |-> 1 ],
      [ tournamentSize |-> 5, minSpeciesCount |-> 1, speciesEliteCount |-> 3 ] }

\* evolve is about to be called on population
InitGA ==
    /\ width = 20000
    /\ height = 10000
    /\ foodCount = 2
    /\ meatCount = 1
    /\ generationLength = 3
    /\ balancing = DefaultBalancing
    /\ creatures = << >>
    /\ foods = << >>
    /\ generation = 1
    /\ tick = 0
    /\ isPaused = FALSE
    /\ speed = 1
    /\ stats = NoStats
    /\ entries = << >>
    /\ population \in Populations
    /\ creatureIdCounter = Len(population)
    /\ ga \in { GeneticAlgorithm(options) : options \in OptionPool }
    /\ heap = << >>
    /\ populationSize = Len(population)
    /\ pc = "evolve"
    /\ s = 0
    /\ ci = 0
    /\ newGen = << >>
    /\ quotaPrev = NoQuota
    /\ quotaNow = NoQuota
    /\ calls = 0
    /\ ticksInCall = 0
    /\ transitionsInCall = 0
    /\ endSeenInCall = FALSE
    /\ updatedInTick = {}
    /\ lastStep = NoStep

worldVars == << creatures, foods, generation, tick, stats, s, ci, calls, ticksInCall,
                transitionsInCall, endSeenInCall, updatedInTick, lastStep >>

SetNewGen(G) ==
    /\ newGen' = G.newGen
    /\ entries' = G.entries

\* steps 1 and 2 of evolve: the species' elites, then the rescue mutants
EvolveBegin ==
    /\ pc = "evolve"
    /\ \E mutants \in MutantPool :
          SetNewGen(EvolveRescue(EvolveElites(population, ga, creatureIdCounter,
                                              Home, entries),
                                 population, ga, creatureIdCounter, Home, mutants))
    /\ pc' = "fill"
    /\ UNCHANGED << config, worldVars, population, creatureIdCounter, quotaPrev,
                    quotaNow >>

\* the individuals the two calls of tournamentSelect drew, and the two it
\* returned
Drawn(sorted, size, draws) ==
    { sorted[(Cyclic(draws, i) % Len(sorted)) + 1] : i \in 1..size }

Selected(sorted, size, case) ==
    [ kind |-> "select",
      drawn1 |-> Drawn(sorted, size, case.draws1),
      drawn2 |-> Drawn(sorted, size, case.draws2),
      parent1 |-> tournamentSelect(sorted, size, case.draws1),
      parent2 |-> tournamentSelect(sorted, size, case.draws2) ]

\* one iteration of step 3's loop: while (newGen.length < popSize)
EvolveFill ==
    /\ pc = "fill"
    /\ Len(newGen) < Len(population)
    /\ \E case \in ChildCases :
          /\ SetNewGen(EvolveChild([ newGen |-> newGen, entries |-> entries ],
                                   population, ga, creatureIdCounter, Home, case))
          /\ lastStep' = Selected(SortByFitness(population), ga.tournamentSize, case)
    /\ pc' = "fill"
    /\ UNCHANGED << config, creatures, foods, generation, tick, stats, s, ci, calls,
                    ticksInCall, transitionsInCall, endSeenInCall, updatedInTick,
                    population, creatureIdCounter, quotaPrev, quotaNow >>

\* the loop's exit: return newGen
EvolveReturn ==
    /\ pc = "fill"
    /\ ~(Len(newGen) < Len(population))
    /\ pc' = "returned"
    /\ creatureIdCounter' = creatureIdCounter + Len(newGen)
    /\ UNCHANGED << config, worldVars, population, newGen, entries, quotaPrev,
                    quotaNow >>

NextGA == EvolveBegin \/ EvolveFill \/ EvolveReturn

SpecGA == InitGA /\ [][NextGA]_vars

---------------------------------------------------------------------------
(* GeneticAlgorithm.evolve on objects: who holds which trait object and     *)
(* which weight storage.  heap[a] is the content of the object at address  *)
(* a; an agent holds the addresses of its traits and of its brain.         *)

\* { ...traits } passing the object itself on
spreadAtShared(h, a) == [ heap |-> h, ref |-> a ]

\* { ...traits }: a new object with the properties of the one at a
spreadAt(h, a) == [ heap |-> Append(h, h[a]), ref |-> Len(h) + 1 ]

\* crossoverTraits: const child = {}, filled key by key, is returned
crossoverTraitsAt(h, a1, a2, blend) ==
    [ heap |-> Append(h, crossoverTraits(h[a1], h[a2], blend)), ref |-> Len(h) + 1 ]

\* mutateTraits: const mutated = { ...traits } is changed and returned
mutateTraitsAt(h, a, noise) ==
    [ heap |-> Append(h, mutateTraits(h[a], noise)), ref |-> Len(h) + 1 ]

\* NeuralNetwork.getWeights: const weights = [] is filled and returned
getWeightsAt(h, brain) ==
    [ heap |-> Append(h, WeightsFrom(h[brain], 1)), ref |-> Len(h) + 1 ]

\* NeuralNetwork.setWeights: this.layers[l][i][j] = weights[idx++] writes the
\* brain's own storage
setWeightsAt(h, brain, weights) ==
    [ h EXCEPT ![brain] = setWeights([ brain |-> h[brain] ], h[weights]).brain ]

\* crossover: const child = [] is filled and returned
crossoverAt(h, w1, w2, mask) ==
    [ heap |-> Append(h, crossover(h[w1], h[w2], mask)), ref |-> Len(h) + 1 ]

\* mutate / mutateAdaptive: weights[i] += noise changes the array it is given
mutateAt(h, weights, wnoise) == [ h EXCEPT ![weights] = mutate(h[weights], wnoise) ]

\* createCreature(options): this.traits = options.traits keeps the object it
\* is given, and this.brain = new NeuralNetwork(...) is a new one
createCreatureAt(h, id, isPredator, traits) ==
    [ heap |-> Append(h, InitialBrain),
      creature |-> [ id |-> id, isPredator |-> isPredator, fitness |-> 0,
                     isElite |-> FALSE, traits |-> traits, brain |-> Len(h) + 1 ] ]

\* step 1 for one parent: the elite clone
EliteAt(h, parent, id) ==
    LET t == spreadAt(h, parent.traits)
        c == createCreatureAt(t.heap, id, parent.isPredator, t.ref)
        w == getWeightsAt(c.heap, parent.brain)
    IN  [ heap |-> setWeightsAt(w.heap, c.creature.brain, w.ref),
          creature |-> [ c.creature EXCEPT !.isElite = TRUE ] ]

\* step 2 for one weak member: the rescue mutant
MutantAt(h, weak, id, case) ==
    LET t == spreadAt(h, weak.traits)
        m == mutateTraitsAt(t.heap, t.ref, case.noise)
        c == createCreatureAt(m.heap, id, weak.isPredator, m.ref)
        w == getWeightsAt(c.heap, weak.brain)
    IN  [ heap |-> setWeightsAt(mutateAt(w.heap, w.ref, case.wnoise),
                                c.creature.brain, w.ref),
          creature |-> c.creature ]

\* step 3 for two tournament winners: the offspring
OffspringAt(h, parent1, parent2, id, case) ==
    LET x  == crossoverTraitsAt(h, parent1.traits, parent2.traits, case.blend)
        m  == mutateTraitsAt(x.heap, x.ref, case.noise)
        c  == createCreatureAt(m.heap, id,
                               IF case.inheritFirst THEN parent1.isPredator
                               ELSE parent2.isPredator,
                               m.ref)
        w1 == getWeightsAt(c.heap, parent1.brain)
        w2 == getWeightsAt(w1.heap, parent2.brain)
        y  == crossoverAt(w2.heap, w1.ref, w2.ref, case.mask)
    IN  [ heap |-> setWeightsAt(mutateAt(y.heap, y.ref, case.wnoise),
                                c.creature.brain, y.ref),
          creature |-> c.creature ]

\* the members of a population as objects: member k holds the trait object at
\* 2k - 1 and the brain at 2k
HeapOf(pop) ==
    [ a \in 1..(2 * Len(pop)) |->
        IF a % 2 = 1 THEN pop[(a + 1) \div 2].traits ELSE pop[a \div 2].brain ]

ObjectsOf(pop) ==
    [ k \in DOMAIN pop |->
        [ id |-> pop[k].id, isPredator |-> pop[k].isPredator,
          fitness |-> pop[k].fitness, isElite |-> pop[k].isElite,
          traits |-> 2 * k - 1, brain |-> 2 * k ] ]

\* evolve is about to be called on a population of objects
InitObjects ==
    /\ width = 20000
    /\ height = 10000
    /\ foodCount = 2
    /\ meatCount = 1
    /\ generationLength = 3
    /\ balancing = DefaultBalancing
    /\ creatures = << >>
    /\ foods = << >>
    /\ generation = 1
    /\ tick = 0
    /\ isPaused = FALSE
    /\ speed = 1
    /\ stats = NoStats
    /\ entries = << >>
    /\ \E pop \in Populations :
          /\ Len(pop) \in { 1, 2 }
          /\ population = ObjectsOf(pop)
          /\ heap = HeapOf(pop)
    /\ creatureIdCounter = Len(population)
    /\ ga = GeneticAlgorithm([ tournamentSize |-> 0, minSpeciesCount |-> 0,
                               speciesEliteCount |-> 0 ])
    /\ populationSize = Len(population)
    /\ pc = "objects"
    /\ s = 0
    /\ ci = 0
    /\ newGen = << >>
    /\ quotaPrev = NoQuota
    /\ quotaNow = NoQuota
    /\ calls = 0
    /\ ticksInCall = 0
    /\ transitionsInCall = 0
    /\ endSeenInCall = FALSE
    /\ updatedInTick = {}
    /\ lastStep = NoStep

\* newGen.push of a new agent, with the heap its making left
Pushed(made) ==
    /\ heap' = made.heap
    /\ newGen' = Append(newGen, made.creature)
    /\ creatureIdCounter' = creatureIdCounter + 1
    /\ UNCHANGED << width, height, populationSize, foodCount, meatCount,
                    generationLength, balancing, ga, isPaused, speed, creatures,
                    foods, generation, tick, stats, entries, pc, s, ci, population,
                    quotaPrev, quotaNow, calls, ticksInCall, transitionsInCall,
                    endSeenInCall, updatedInTick >>

\* one iteration of step 1's loop, for any parent
CloneElite ==
    /\ pc = "objects"
    /\ Len(newGen) < Len(population)
    /\ \E k \in DOMAIN population :
          /\ Pushed(EliteAt(heap, population[k], creatureIdCounter + 1))
          /\ lastStep' = [ kind |-> "elite", parent1 |-> k, parent2 |-> k ]

\* one iteration of step 2's loops, for any weak member
RescueMutant ==
    /\ pc = "objects"
    /\ Len(newGen) < Len(population)
    /\ \E k \in DOMAIN population, case \in MutantCases :
          /\ Pushed(MutantAt(heap, population[k], creatureIdCounter + 1, case))
          /\ lastStep' = [ kind |-> "mutant", parent1 |-> k, parent2 |-> k ]

\* one iteration of step 3's loop, for any two winners
BreedChild ==
    /\ pc = "objects"
    /\ Len(newGen) < Len(population)
    /\ \E k1 \in DOMAIN population, k2 \in DOMAIN population,
          g \in GeneCases, first \in BOOLEAN :
          /\ Pushed(OffspringAt(heap, population[k1], population[k2],
                                creatureIdCounter + 1,
                                [ blend |-> g.blend, noise |-> g.noise,
                                  mask |-> g.mask, wnoise |-> g.wnoise,
                                  inheritFirst |-> first ]))
          /\ lastStep' = [ kind |-> "child", parent1 |-> k1, parent2 |-> k2 ]

NextObjects == CloneElite \/ RescueMutant \/ BreedChild

SpecObjects == InitObjects /\ [][NextObjects]_vars


---------------------------------------------------------------------------
(* The traits over the generations: the constructor's population, each     *)
(* generation's life, evolve, and the succession of the new generation     *)

\* the percents generateTraits draws for one agent
TraitDraws ==
    { [ key \in DOMAIN TRAIT_DEFINITIONS |-> 0 ],
      [ key \in DOMAIN TRAIT_DEFINITIONS |-> 100 ],
      [ size |-> 50, metabolism |-> 0, aggression |-> 100, vision |-> 50 ] }

\* the draws of the agents of one spawnCreatures call, as repeating patterns
TraitDrawPool ==
    { << d >> : d \in TraitDraws }
      \cup { << [ key \in DOMAIN TRAIT_DEFINITIONS |-> 0 ],
                [ key \in DOMAIN TRAIT_DEFINITIONS |-> 100 ] >> }

\* spawnCreatures: populationSize agents, the first
\* floor(populationSize * predatorRatio) of them predators, each with the
\* traits generateTraits draws for it
spawnCreatures(n, predatorRatio, draws) ==
    [ i \in 1..n |->
        Creature(i, Home.x, Home.y, Home.angle,
                 i - 1 < (n * predatorRatio) \div 100,
                 generateTraits(i - 1 < (n * predatorRatio) \div 100,
                                Cyclic(draws, i))) ]

\* what the life of a generation leaves of its agents, as repeating patterns
LifePool ==
    { << [ fitness |-> 3000000, energy |-> 500000 ],
         [ fitness |-> 1000000, energy |-> 0 ] >>,
      << [ fitness |-> 0, energy |-> -5000 ],
         [ fitness |-> 2000000, energy |-> 300000 ],
         [ fitness |-> 2000000, energy |-> 0 ] >> }

InitTraits ==
    /\ width = 20000
    /\ height = 10000
    /\ foodCount = 2
    /\ meatCount = 1
    /\ generationLength = 1000
    /\ balancing = DefaultBalancing
    /\ creatures = << >>
    /\ foods = << >>
    /\ generation = 1
    /\ tick = 0
    /\ isPaused = FALSE
    /\ speed = 1
    /\ stats = NoStats
    /\ entries = << >>
    /\ \E ratio \in { 20, 50 }, draws \in TraitDrawPool :
          population = spawnCreatures(MaxPop, ratio, draws)
    /\ creatureIdCounter = Len(population)
    /\ ga \in { GeneticAlgorithm(options) :
                   options \in { [ tournamentSize |-> 5, minSpeciesCount |-> 0,
                                    speciesEliteCount |-> 0 ],
                                  [ tournamentSize |-> 2, minSpeciesCount |-> 1,
                                    speciesEliteCount |-> 1 ] } }
    /\ heap = << >>
    /\ populationSize = Len(population)
    /\ pc = "live"
    /\ s = 0
    /\ ci = 0
    /\ newGen = << >>
    /\ quotaPrev = NoQuota
    /\ quotaNow = NoQuota
    /\ calls = 0
    /\ ticksInCall = 0
    /\ transitionsInCall = 0
    /\ endSeenInCall = FALSE
    /\ updatedInTick = {}
    /\ lastStep = NoStep

\* the life of one generation: it changes the agents' fitness, energy and age
\* and never their traits
LiveGeneration ==
    /\ pc = "live"
    /\ \E life \in LifePool :
          population' = [ k \in DOMAIN population |->
                            [ population[k] EXCEPT
                                !.fitness = Cyclic(life, k).fitness,
                                !.energy = Cyclic(life, k).energy,
                                !.age = generationLength,
                                !.wasDead = ~(Cyclic(life, k).energy > 0) ] ]
    /\ pc' = "evolve"
    /\ UNCHANGED << config, worldVars, newGen, entries, creatureIdCounter,
                    quotaPrev, quotaNow >>

\* the random outcomes of one child's traits: the two tournaments, the blend
\* of crossoverTraits and the noise of mutateTraits; the brain is the first
\* parent's, unmutated
TraitKidCases ==
    { [ draws1 |-> d[1], draws2 |-> d[2],
        blend |-> [ key \in DOMAIN TRAIT_DEFINITIONS |-> b ], noise |-> n,
        inheritFirst |-> TRUE, flip |-> FALSE,
        mask |-> [ i \in 1..WeightLen |-> TRUE ], wnoise |-> NoWeightNoise ] :
        d \in DrawPairs, b \in { 0, 50, 100 }, n \in NoisePool }

\* World.update at the end of a generation:
\* this.creatures = this.ga.evolve(this.creatures, ...); this.generation++
NextGeneration ==
    /\ pc = "evolve"
    /\ generation <= MaxGeneration
    /\ \E mutants \in MutantPool, kid \in TraitKidCases :
          LET G == evolve(population, ga, creatureIdCounter, Home, entries,
                          mutants, << kid >>)
          IN  /\ population' = G.newGen
              /\ entries' = G.entries
              /\ creatureIdCounter' = creatureIdCounter + Len(G.newGen)
    /\ generation' = generation + 1
    /\ pc' = "live"
    /\ UNCHANGED << config, creatures, foods, tick, stats, s, ci, calls,
                    ticksInCall, transitionsInCall, endSeenInCall, updatedInTick,
                    lastStep, newGen, quotaPrev, quotaNow >>

NextTraits == LiveGeneration \/ NextGeneration

SpecTraits == InitTraits /\ [][NextTraits]_vars

---------------------------------------------------------------------------
(* World.calculateFoodCount on worlds of every composition *)

\* the creatures of a world by species and state of life
LivingHunter ==
    [ isPredator |-> TRUE,  traits |-> HunterTraits, energy |-> 800000,
      fitness |-> 10000, kills |-> 0 ]

LivingGrazer ==
    [ isPredator |-> FALSE, traits |-> GrazerTraits, energy |-> 544000,
      fitness |-> 10000, kills |-> 0 ]

DeadGrazer ==
    [ isPredator |-> FALSE, traits |-> GrazerTraits, energy |-> 0,
      fitness |-> 5000, kills |-> 0 ]

\* a world of p living predators, h living herbivores and d dead herbivores
QuotaWorld(p, h, d) ==
    [ k \in 1..(p + h + d) |->
        Placed(k, IF k <= p THEN LivingHunter
                  ELSE IF k <= p + h THEN LivingGrazer ELSE DeadGrazer, Home) ]

QuotaWorlds ==
    { QuotaWorld(c[1], c[2], c[3]) :
        c \in { c \in (0..MaxPop) \X (0..MaxPop) \X (0..MaxPop) :
                  c[1] + c[2] + c[3] <= MaxPop } }

\* base food counts and balancing options (the scaling factor in hundredths)
FoodCounts == { 4, 10, 35 }

BalancingPool ==
    { DefaultBalancing,
      [ DefaultBalancing EXCEPT !.dynamicFoodEnabled = FALSE ],
      [ DefaultBalancing EXCEPT !.foodScalingFactor = 0 ],
      [ DefaultBalancing EXCEPT !.foodScalingFactor = 200 ] }

\* what calculateFoodCount returns for the creatures cs, with the counts it
\* is computed from
Quota(cs, fc, bal) ==
    [ herbivores |-> Count(Filter(cs, isAlive), IsPrey),
      alive |-> Count(cs, isAlive),
      quota |-> calculateFoodCount(cs, fc, bal) ]

InitQuota ==
    /\ width = 20000
    /\ height = 10000
    /\ foodCount \in FoodCounts
    /\ meatCount = 1
    /\ generationLength = 3
    /\ balancing \in BalancingPool
    /\ creatures \in QuotaWorlds
    /\ foods = << >>
    /\ generation = 1
    /\ tick = 0
    /\ isPaused = FALSE
    /\ speed = 1
    /\ stats = NoStats
    /\ entries = << >>
    /\ population = << >>
    /\ creatureIdCounter = Len(creatures)
    /\ ga = GeneticAlgorithm([ tournamentSize |-> 5, minSpeciesCount |-> 0,
                               speciesEliteCount |-> 0 ])
    /\ heap = << >>
    /\ populationSize = Len(creatures)
    /\ pc = "quota"
    /\ s = 0
    /\ ci = 0
    /\ newGen = << >>
    /\ quotaPrev = NoQuota
    /\ quotaNow = NoQuota
    /\ calls = 0
    /\ ticksInCall = 0
    /\ transitionsInCall = 0
    /\ endSeenInCall = FALSE
    /\ updatedInTick = {}
    /\ lastStep = NoStep

\* calculateFoodCount is called on the world, whose composition has changed
\* since the call before
CalculateFoodCount ==
    /\ pc = "quota"
    /\ quotaPrev' = quotaNow
    /\ quotaNow' = Quota(creatures, foodCount, balancing)
    /\ creatures' \in QuotaWorlds
    /\ UNCHANGED << config, foods, generation, tick, stats, entries, population,
                    creatureIdCounter, newGen, pc, s, ci, calls, ticksInCall,
                    transitionsInCall,
                    endSeenInCall, updatedInTick, lastStep >>

NextQuota == CalculateFoodCount

SpecQuota == InitQuota /\ [][NextQuota]_vars


---------------------------------------------------------------------------
(* NeuralNetwork.getWeights and setWeights on networks of several shapes *)

\* a network of the shape of nn whose weights and biases are all different
Numbered(nn, base) ==
    [ layers |-> [ l \in DOMAIN nn.layers |->
                    [ i \in DOMAIN nn.layers[l] |->
                        [ j \in DOMAIN nn.layers[l][i] |->
                            base + 100 * l + 10 * i + j ] ] ],
      biases |-> [ l \in DOMAIN nn.biases |->
                    [ i \in DOMAIN nn.biases[l] |-> base + 100 * l + 10 * i ] ] ]

\* two creatures whose brains have the same architecture
InitBrain ==
    /\ width = 20000
    /\ height = 10000
    /\ foodCount = 2
    /\ meatCount = 1
    /\ generationLength = 103
    /\ balancing = DefaultBalancing
    /\ creatures = << >>
    /\ foods = << >>
    /\ generation = 1
    /\ tick = 0
    /\ isPaused = FALSE
    /\ speed = 1
    /\ stats = NoStats
    /\ entries = << >>
    /\ creatureIdCounter = 2
    /\ ga = GeneticAlgorithm([ tournamentSize |-> 0, minSpeciesCount |-> 0,
                               speciesEliteCount |-> 0 ])
    /\ \E inputSize \in 1..(BrainInputs + 1),
          hiddenLayers \in { << >>, << 1 >>, << 2 >>, << 2, 1 >> },
          outputSize \in 1..2 :
          /\ population =
                [ k \in 1..2 |->
                    [ Creature(k, Home.x, Home.y, Home.angle, FALSE, GrazerTraits)
                        EXCEPT !.brain =
                          Numbered(NeuralNetwork(inputSize, hiddenLayers, outputSize),
                                   1000 * k) ] ]
          /\ lastStep = [ kind |-> "new",
                          sizes |-> LayerSizes(inputSize, hiddenLayers, outputSize) ]
    /\ newGen = << >>
    /\ heap = << >>
    /\ populationSize = 40
    /\ pc = "brain"
    /\ s = 0
    /\ ci = 0
    /\ quotaPrev = NoQuota
    /\ quotaNow = NoQuota
    /\ calls = 0
    /\ ticksInCall = 0
    /\ transitionsInCall = 0
    /\ endSeenInCall = FALSE
    /\ updatedInTick = {}

\* a.setWeights(a.getWeights()) and b.setWeights(a.getWeights())
RoundTrip ==
    /\ pc = "brain"
    /\ newGen' = << setWeights(population[1], getWeights(population[1])),
                    setWeights(population[2], getWeights(population[1])) >>
    /\ lastStep' = [ lastStep EXCEPT !.kind = "roundTrip" ]
    /\ UNCHANGED << config, creatures, foods, generation, tick, stats, s, ci,
                    calls, ticksInCall, transitionsInCall, endSeenInCall,
                    updatedInTick, entries, population, creatureIdCounter,
                    quotaPrev, quotaNow, pc >>

\* a.setWeights(v) for vectors v of the network's weight count and of other
\* lengths; the call returns normally whatever the length of v is
SetWeights ==
    /\ pc = "brain"
    /\ \E n \in 0..(Len(getWeights(population[1])) + 2) :
          /\ newGen' = << setWeights(population[1], [ i \in 1..n |-> 7000 + i ]) >>
          /\ lastStep' = [ kind |-> "setWeights", sizes |-> lastStep.sizes,
                           weights |-> [ i \in 1..n |-> 7000 + i ],
                           threw |-> FALSE ]
    /\ UNCHANGED << config, creatures, foods, generation, tick, stats, s, ci,
                    calls, ticksInCall, transitionsInCall, endSeenInCall,
                    updatedInTick, entries, population, creatureIdCounter,
                    quotaPrev, quotaNow, pc >>

NextBrain == RoundTrip \/ SetWeights

SpecBrain == InitBrain /\ [][NextBrain]_vars

---------------------------------------------------------------------------
(* Properties of World.update and Creature.update, checked under Spec *)

\* C2: in World.update the generation-end check runs only after every living
\* agent has been updated for the tick; a call makes at most one generation
\* transition, makes it when the check finds tick >= generationLength or no
\* agent alive, and processes no further tick after it, even when speed > 1.
C2_CheckAfterTick ==
    /\ pc = "check" =>
          \A i \in DOMAIN creatures : isAlive(creatures[i]) => i \in updatedInTick
    /\ transitionsInCall <= 1
    /\ endSeenInCall => (transitionsInCall = 1 /\ pc \in { "frame", "idle" } /\ tick = 0)
    /\ (pc \in { "tick", "frame" } /\ ticksInCall > 0 /\ ~endSeenInCall) =>
          (tick < generationLength /\ Count(creatures, isAlive) > 0)

\* the transition was made in the first tick of a call that had two to run
C2_Witness ==
    /\ pc = "frame"
    /\ endSeenInCall
    /\ speed = 2
    /\ ticksInCall = 1

\* C3: once a creature's energy has been <= 0 at some point of a generation,
\* it is never > 0 again in that generation.
C3_DeadIsTerminal ==
    \A i \in DOMAIN creatures : creatures[i].wasDead => creatures[i].energy <= 0

\* the update of a predator whose cooldown has elapsed and whose nearest
\* sensed creature is a living prey within attack range
InAttackRange ==
    /\ lastStep.kind = "update"
    /\ lastStep.before[lastStep.i].isPredator
    /\ lastStep.before[lastStep.i].attackCooldown <= 0
    /\ sense(lastStep.before, lastStep.i) # 0
    /\ LET c == lastStep.before[lastStep.i]
           prey == lastStep.before[sense(lastStep.before, lastStep.i)]
       IN  /\ ~prey.isPredator
           /\ isAlive(prey)
           /\ Dist2(c, prey) < (radius(c) + radius(prey) + 1500)
                                 * (radius(c) + radius(prey) + 1500)

\* C4: when a predator with attack cooldown <= 0 is updated while its nearest
\* sensed creature is a living prey within attack range, the prey's energy
\* decreases by exactly the predator's attackPower and the predator's
\* cooldown is its attackCooldownMax after that tick.
C4_AttackInRange ==
    InAttackRange =>
        LET n == sense(lastStep.before, lastStep.i)
        IN  /\ creatures[n].energy
                 = lastStep.before[n].energy - attackPower(lastStep.before[lastStep.i])
            /\ creatures[lastStep.i].attackCooldown
                 = attackCooldownMax(lastStep.before[lastStep.i])

\* such an update has happened, and the prey has survived the attack
C4_Witness ==
    /\ InAttackRange
    /\ lastStep.strike.hit
    /\ lastStep.strike.preyAfter.energy > 0

\* C5: an attack that brings the prey's energy to <= 0 adds exactly
\* 150 + 0.5 * (the prey's fitness) + 20 * (the attacker's kills before) to
\* the attacker's fitness, adds 1 to its kills and sets its energy to
\* min(maxEnergy, energy + 0.8 * prey.maxEnergy); an attack that leaves the
\* prey's energy > 0 changes neither the attacker's fitness nor its kills.
C5_KillReward ==
    lastStep.strike.hit =>
        LET st == lastStep.strike
        IN  IF st.preyAfter.energy <= 0
            THEN /\ 2 * (st.attackerAfter.fitness - st.attacker.fitness
                           - 1500000 - 200000 * st.attacker.kills) = st.prey.fitness
                 /\ st.attackerAfter.kills = st.attacker.kills + 1
                 /\ 10 * st.attackerAfter.energy
                      = Min(10 * maxEnergy(st.attacker),
                            10 * st.attacker.energy + 8 * maxEnergy(st.prey))
            ELSE /\ st.attackerAfter.fitness = st.attacker.fitness
                 /\ st.attackerAfter.kills = st.attacker.kills

\* a predator that had killed before has killed again
C5_Witness ==
    /\ lastStep.strike.hit
    /\ lastStep.strike.preyAfter.energy <= 0
    /\ lastStep.strike.attacker.kills = 1
    /\ lastStep.strike.prey.fitness > 0

\* C6: a kill leaves a meat item at the prey's position with the hunted
\* lifetime of 800 ticks.
C6_HuntedMeatLifetime ==
    (lastStep.strike.hit /\ lastStep.strike.preyAfter.energy <= 0) =>
        LET st == lastStep.strike
            meat == st.foodsAfter[Len(st.foodsAfter)]
        IN  /\ Len(st.foodsAfter) = Len(st.foods) + 1
            /\ meat.type = "meat"
            /\ meat.x = st.prey.x
            /\ meat.y = st.prey.y
            /\ meat.lifetime = 800


---------------------------------------------------------------------------
(* Properties of GeneticAlgorithm.evolve, checked under SpecGA *)

InSpecies(q, predator) == { k \in DOMAIN q : q[k].isPredator = predator }

\* C1: evolve returns a population of the input's length: elites plus rescue
\* mutants never exceed the input's size, and the offspring of step 3 fill
\* exactly the remaining slots.
C1_SameLength ==
    /\ pc = "fill" => Len(newGen) <= Len(population)
    /\ pc = "returned" => Len(newGen) = Len(population)

\* evolve has returned a population made of elites, a mutant and a child
C1_Witness ==
    /\ pc = "returned"
    /\ Len(newGen) = 3
    /\ Cardinality({ k \in DOMAIN newGen : newGen[k].isElite }) = 1
    /\ Cardinality({ j \in DOMAIN entries : entries[j].type = "birth" }) = 1

C8_NoExtinction ==
    pc = "returned" =>
        \A predator \in BOOLEAN :
            InSpecies(population, predator) # {} => InSpecies(newGen, predator) # {}

\* the single predator of the input has its clone as the only predator of
\* the output, next to offspring
C8_Witness ==
    /\ pc = "returned"
    /\ Cardinality(InSpecies(population, TRUE)) = 1
    /\ Cardinality(InSpecies(newGen, TRUE)) = 1
    /\ \E e \in Range(entries) : e.type = "birth"

\* the one-to-one assignments of the members top of population to the
\* members elites of newGen under which every clone has its parent's traits
\* and flattened weight vector
CloneMaps(top, elites) ==
    { f \in [ top -> elites ] :
        /\ \A i, j \in top : f[i] = f[j] => i = j
        /\ \A k \in elites : \E i \in top : f[i] = k
        /\ \A i \in top : /\ newGen[f[i]].traits = population[i].traits
                          /\ getWeights(newGen[f[i]]) = getWeights(population[i]) }

---------------------------------------------------------------------------
(* Properties of World.calculateFoodCount, checked under SpecQuota *)

\* the quota does not rise from one call to the next when the ratio of
\* living herbivores to living creatures does not fall
QuotaMonotone ==
    (/\ quotaPrev # NoQuota
     /\ quotaPrev.alive > 0
     /\ quotaNow.alive > 0
     /\ quotaPrev.herbivores * quotaNow.alive <= quotaNow.herbivores * quotaPrev.alive)
    => quotaNow.quota <= quotaPrev.quota

\* the quota is the base food count with balancing disabled or nobody alive
QuotaBase ==
    (~balancing.dynamicFoodEnabled \/ quotaNow.alive = 0) => quotaNow.quota = foodCount

\* C10 as stated: the quota is non-increasing in the ratio of living
\* herbivores to living creatures, never below 60% and never above 150% of
\* the base food count, and the base food count with balancing disabled or
\* with no living creature.
C10_QuotaBounds ==
    quotaNow # NoQuota =>
        /\ QuotaMonotone
        /\ 10 * quotaNow.quota >= 6 * foodCount
        /\ 10 * quotaNow.quota <= 15 * foodCount
        /\ QuotaBase

\* C10 as amended: the same, with the lower bound floor(0.6 * base food
\* count) in place of 60% of the base food count.
C10_QuotaFloorBounds ==
    quotaNow # NoQuota =>
        /\ QuotaMonotone
        /\ quotaNow.quota >= (6 * foodCount) \div 10
        /\ 10 * quotaNow.quota <= 15 * foodCount
        /\ QuotaBase

\* between two calls the herbivores' ratio has risen and the quota has
\* fallen to its lower bound
C10_Witness ==
    /\ quotaPrev # NoQuota
    /\ balancing.dynamicFoodEnabled
    /\ quotaPrev.alive > 0
    /\ quotaNow.alive > 0
    /\ quotaPrev.herbivores * quotaNow.alive < quotaNow.herbivores * quotaPrev.alive
    /\ quotaNow.quota < quotaPrev.quota
    /\ quotaNow.quota = (6 * foodCount) \div 10


(***************************************************************************)
(* Fitness and the population penalty, checked under Spec                  *)
(***************************************************************************)

\* C11: within a generation no creature's fitness decreases from one step of
\* World.update to the next (hence from one tick to the next), no creature's
\* fitness is negative, and a creature that is dead keeps its fitness.
C11_FitnessMonotone ==
    /\ [](\A j \in DOMAIN creatures : creatures[j].fitness >= 0)
    /\ [][ generation' = generation =>
             \A j \in DOMAIN creatures :
                /\ creatures'[j].fitness >= creatures[j].fitness
                /\ (~isAlive(creatures[j]) =>
                       creatures'[j].fitness = creatures[j].fitness) ]_vars

\* a creature's update has raised its fitness by more than the passive 0.01
\* (it ate or killed) while a dead creature of the world kept its fitness
C11_Witness ==
    /\ lastStep.kind = "update"
    /\ creatures[lastStep.i].fitness > lastStep.before[lastStep.i].fitness + 100
    /\ \E j \in DOMAIN creatures :
          /\ ~isAlive(lastStep.before[j])
          /\ creatures[j].fitness = lastStep.before[j].fitness


\* the share of a species among the living creatures cs exceeds pct percent
SpeciesOver(cs, predator, pct) ==
    LET alive == { k \in DOMAIN cs : cs[k].energy > 0 }
        mine == { k \in alive : cs[k].isPredator = predator }
    IN  100 * Cardinality(mine) > pct * Cardinality(alive)

\* the fitness creature c of cs enters selection with: its fitness plus its
\* energy when alive, times (1 - penalty) when its species is over its threshold
ScoredFitness(cs, c, bal) ==
    LET bonus == c.fitness + (IF c.energy > 0 THEN c.energy ELSE 0)
    IN  IF ~c.isPredator /\ SpeciesOver(cs, FALSE, bal.overpopulationThreshold)
        THEN Round(bonus * (100 - bal.herbivorePenalty), 100)
        ELSE IF c.isPredator /\ SpeciesOver(cs, TRUE, bal.predatorThreshold)
        THEN Round(bonus * (100 - bal.predatorPenalty), 100)
        ELSE bonus

\* C12: at a generation transition every creature enters selection with its
\* fitness plus its remaining energy (if alive), multiplied once by
\* (1 - penalty) exactly when its species' share of the living exceeds its
\* threshold; the generation's statistics are computed from these values; no
\* other step of World.update lowers a fitness.
C12_PenaltyAtGenerationEnd ==
    [][ IF generation' # generation
        THEN /\ DOMAIN population' = DOMAIN creatures
             /\ \A j \in DOMAIN creatures :
                   population'[j].fitness = ScoredFitness(creatures, creatures[j], balancing)
             /\ stats'.history[Len(stats'.history)].maxFitness
                  = MaxOf({ ScoredFitness(creatures, creatures[j], balancing) :
                            j \in DOMAIN creatures })
        ELSE /\ population' = population
             /\ \A j \in DOMAIN creatures :
                   creatures'[j].fitness >= creatures[j].fitness ]_vars

\* a generation has ended with only predators alive: the living predator
\* entered selection penalised, next to a dead herbivore that was not
C12_Witness ==
    /\ transitionsInCall = 1
    /\ \E j, k \in DOMAIN population :
          /\ population[j].isPredator /\ population[j].energy > 0
          /\ population[j].fitness > 0
          /\ ~population[k].isPredator /\ population[k].energy <= 0
          /\ population[k].fitness > 0
    /\ SpeciesOver(population, TRUE, balancing.predatorThreshold)


(***************************************************************************)
(* Pause and speed, checked under SpecControls                             *)
(***************************************************************************)

\* C13: an update call made while the world is paused changes nothing of the
\* simulation (tick, generation, creatures, foods, statistics, log);
\* togglePause flips the flag, returns the new flag and changes nothing else,
\* so a second togglePause right after the first restores the flag.
C13_PauseFreezes ==
    [][ /\ (pc = "idle" /\ isPaused /\ calls' # calls) =>
              /\ pc' = "idle"
              /\ UNCHANGED << tick, generation, creatures, foods, stats, entries,
                              creatureIdCounter, population, isPaused, speed >>
        /\ (lastStep'.kind = "togglePause" /\ lastStep' # lastStep) =>
              /\ isPaused' = ~isPaused
              /\ lastStep'.returned = isPaused'
              /\ (lastStep.kind = "togglePause" => isPaused' = lastStep.before)
              /\ UNCHANGED << tick, generation, creatures, foods, stats, entries,
                              creatureIdCounter, population, speed >> ]_vars

\* update has just been called on a paused world that had run before
C13_Witness ==
    /\ pc = "idle"
    /\ isPaused
    /\ calls = 2
    /\ ticksInCall = 0
    /\ lastStep = NoStep
    /\ stats.tick > 99

\* C14: the speed set by setSpeed lies in 1..10; an update call never runs
\* more ticks than the speed, runs exactly that many when no generation ends
\* in it, and runs fewer only when a generation transition stopped it.
C14_SpeedBoundsTicks ==
    /\ speed \in 1..10
    /\ (pc # "idle" => ticksInCall <= speed)
    /\ (pc = "frame" =>
          IF transitionsInCall = 0 THEN ticksInCall = speed
          ELSE transitionsInCall = 1 /\ ticksInCall <= speed)

\* after a call of three ticks at speed 3 the speed was set to 10, and the
\* next call was stopped by the generation's end in its first tick
C14_Witness ==
    /\ pc = "frame"
    /\ calls = 2
    /\ stats.tick = 102
    /\ speed = 10
    /\ ticksInCall = 1
    /\ transitionsInCall = 1


(***************************************************************************)
(* The brain's weight vector, checked under SpecBrain                      *)
(***************************************************************************)

\* the architecture-determined weight count: the sum over the layers of
\* (fanIn + 1) * fanOut
WeightCount(sizes) ==
    SumSeq([ l \in 1..(Len(sizes) - 1) |-> (sizes[l] + 1) * sizes[l + 1] ])

\* C15: setWeights with a vector whose length is not the network's weight
\* count fails with an error and leaves the weights and biases as they were.
C15_ShapeMismatch ==
    (lastStep.kind = "setWeights"
       /\ Len(lastStep.weights) # WeightCount(lastStep.sizes)) =>
        /\ lastStep.threw
        /\ newGen[1].brain = population[1].brain

\* C18: setWeights(getWeights()) leaves every weight and bias of a network
\* unchanged, b.setWeights(a.getWeights()) makes b.getWeights() equal to
\* a.getWeights(), and the vector's length is the sum over the layers of
\* (fanIn + 1) * fanOut.
C18_RoundTrip ==
    lastStep.kind = "roundTrip" =>
        /\ newGen[1].brain = population[1].brain
        /\ getWeights(newGen[2]) = getWeights(population[1])
        /\ getWeights(population[2]) # getWeights(population[1])
        /\ Len(getWeights(population[1])) = WeightCount(lastStep.sizes)

\* the round trip was made on networks with two hidden layers
C18_Witness ==
    /\ lastStep.kind = "roundTrip"
    /\ Len(lastStep.sizes) = 4
    /\ Len(getWeights(newGen[2])) = 13


(***************************************************************************)
(* Configuration, trait ranges, meat and the log: Spec and SpecGA          *)
(***************************************************************************)

\* C16: a world whose population size is zero, or whose tournament size or
\* elite count exceeds its population size, never processes a tick (its
\* configuration was rejected when it was built).
C16_ConfigurationRejected ==
    (\/ Len(creatures) = 0
     \/ ga.tournamentSize > Len(creatures)
     \/ ga.speciesEliteCount > Len(creatures)) => ticksInCall = 0


C20_PredatorMeatToxic ==
    [][ (pc = "creatures" /\ creatures[ci].isPredator) =>
           \A k \in DOMAIN foods :
              (foods[k].isPredatorMeat /\ ~foods[k].consumed) =>
                  ~foods'[k].consumed ]_vars


\* the log's death entries for creature id, and the kill entries it is the
\* prey or the predator of
DeathsOf(es, id) == { k \in DOMAIN es : es[k].type = "death" /\ es[k].creatureId = id }

KilledOf(es, id) == { k \in DOMAIN es : es[k].type = "kill" /\ es[k].other = id }

KillsBy(es, id) == { k \in DOMAIN es : es[k].type = "kill" /\ es[k].creatureId = id }

\* the log es reports creature c as it is: one death entry with the right
\* cause if its energy is <= 0 and none otherwise, and one kill entry for
\* each of its kills
Reported(es, c) ==
    /\ Cardinality(KillsBy(es, c.id)) = c.kills
    /\ IF c.energy <= 0
       THEN /\ Cardinality(DeathsOf(es, c.id)) = 1
            /\ Cardinality(KilledOf(es, c.id)) <= 1
            /\ \A k \in DeathsOf(es, c.id) :
                  es[k].cause = IF KilledOf(es, c.id) # {} THEN "hunted"
                                ELSE "starvation"
       ELSE DeathsOf(es, c.id) = {}

\* C19: when an update call has returned, the log holds exactly one death
\* entry for every dead creature, 'hunted' for a killed prey and
\* 'starvation' otherwise, and one kill entry for every kill; the same holds
\* for the creatures of a generation at the moment the generation ends.
C19_DeathsLogged ==
    /\ [](pc = "idle" => \A j \in DOMAIN creatures : Reported(entries, creatures[j]))
    /\ [][ generation' # generation =>
              \A j \in DOMAIN creatures : Reported(entries', creatures[j]) ]_vars


---------------------------------------------------------------------------
(***************************************************************************)
(* Elitism across generations, checked under SpecGA and SpecGenerations    *)
(***************************************************************************)

\* C21: the population evolve returns holds a clone of an individual of the
\* highest fitness in the population it was handed: a member with that
\* individual's species, trait values and flattened weight vector.
C21_BestKept ==
    (pc = "returned" /\ population # << >>) =>
        \E i \in DOMAIN population :
            /\ \A j \in DOMAIN population :
                  population[i].fitness >= population[j].fitness
            /\ \E k \in DOMAIN newGen :
                  /\ newGen[k].isPredator = population[i].isPredator
                  /\ newGen[k].traits = population[i].traits
                  /\ getWeights(newGen[k]) = getWeights(population[i])

\* the best individual is the second of three, the others have lower
\* fitness and other weights, and the returned population holds offspring
C21_Witness ==
    /\ pc = "returned"
    /\ Len(population) = 3
    /\ \A j \in { 1, 3 } : population[j].fitness < population[2].fitness
    /\ \E k \in DOMAIN newGen : ~newGen[k].isElite
    /\ \E k \in DOMAIN newGen :
          /\ newGen[k].isElite
          /\ newGen[k].traits = population[2].traits
          /\ getWeights(newGen[k]) = getWeights(population[2])


\* the generation at whose end the elite of log entry k was chosen: the
\* number of the nearest older generation entry (the log is newest first)
ChosenAt(es, k) ==
    LET older == { j \in DOMAIN es : j > k /\ es[j].type = "generation" }
    IN  IF older = {} THEN 0
        ELSE es[CHOOSE j \in older : \A i \in older : j <= i].other

\* the log entries of the elites of a species chosen at the end of generation g
ElitesChosen(es, g, predator) ==
    { k \in DOMAIN es : /\ es[k].type = "elite"
                        /\ es[k].isPredator = predator
                        /\ ChosenAt(es, k) = g }

\* C22 as stated: for each species, the minimum fitness among the elites
\* chosen at the end of generation g+1 is not lower than the minimum fitness
\* among the species' elites chosen at the end of generation g.
C22_EliteMinimumMonotone ==
    \A g \in 1..MaxGeneration, predator \in BOOLEAN :
        \A k1 \in ElitesChosen(entries, g + 1, predator) :
            ElitesChosen(entries, g, predator) # {} =>
                \E k0 \in ElitesChosen(entries, g, predator) :
                    entries[k1].fitness >= entries[k0].fitness

\* C22 as amended: the elites chosen at the end of a generation enter the
\* next one as clones of a member of the old population, with its species,
\* traits and weights and with fitness 0 again; the fitness an elite is
\* chosen with is earned within its generation and is never negative.
C22_ElitesStartAfresh ==
    /\ [](\A k \in DOMAIN entries : entries[k].type = "elite" => entries[k].fitness >= 0)
    /\ [][ generation' # generation =>
              \A k \in DOMAIN creatures' :
                  creatures'[k].isElite =>
                      /\ creatures'[k].fitness = 0
                      /\ \E i \in DOMAIN population' :
                            /\ population'[i].isPredator = creatures'[k].isPredator
                            /\ population'[i].traits = creatures'[k].traits
                            /\ getWeights(population'[i]) = getWeights(creatures'[k])
                            /\ \E j \in ElitesChosen(entries', generation, creatures'[k].isPredator) :
                                  /\ entries'[j].creatureId = population'[i].id
                                  /\ entries'[j].fitness = population'[i].fitness ]_vars

\* two generations have ended, and an elite of the second was chosen with a
\* lower fitness than every elite of its species of the first
C22_Witness ==
    /\ generation = 3
    /\ \E predator \in BOOLEAN :
          /\ ElitesChosen(entries, 1, predator) # {}
          /\ \E k1 \in ElitesChosen(entries, 2, predator) :
                \A k0 \in ElitesChosen(entries, 1, predator) :
                    entries[k1].fitness < entries[k0].fitness


---------------------------------------------------------------------------
(***************************************************************************)
(* Energy, attacks, deaths and food within a generation, checked under     *)
(* Spec                                                                    *)
(***************************************************************************)

\* C23: every agent's energy stays within 0..maxEnergy: whenever a step of
\* update changes an agent's energy (a cost, an attack's damage, a gain from
\* food or from a kill), the new energy is at least 0 and at most maxEnergy,
\* and every agent of a new generation starts within that range.
C23_EnergyInRange ==
    [][ \A k \in DOMAIN creatures' :
           (k \in DOMAIN creatures /\ generation' = generation
              /\ creatures'[k].energy = creatures[k].energy)
           \/ (/\ 0 <= creatures'[k].energy
               /\ creatures'[k].energy <= maxEnergy(creatures'[k])) ]_vars


---------------------------------------------------------------------------
(***************************************************************************)
(* The length of a generation, checked under SpecLone                      *)
(***************************************************************************)

\* C24: the tick counter never exceeds generationLength and is strictly
\* smaller whenever an update call has returned; the generation counter
\* never decreases and grows by exactly 1 with each transition; and under
\* repeated unpaused update calls the first generation eventually ends.
C24_GenerationBounded ==
    /\ [](tick <= generationLength)
    /\ [](pc = "idle" => tick < generationLength)
    /\ [][ /\ generation' \in { generation, generation + 1 }
           /\ (generation' = generation + 1)
                <=> (transitionsInCall' = transitionsInCall + 1) ]_vars
    /\ (generation = 1) ~> (generation = 2)

\* the second call has brought the tick counter to generationLength = 2 with
\* every creature alive, and the generation has ended there
C24_Witness ==
    /\ generation = 2
    /\ tick = 0
    /\ calls = 2
    /\ generationLength = 2
    /\ speed = 1
    /\ \A k \in DOMAIN population : isAlive(population[k])


---------------------------------------------------------------------------
(***************************************************************************)
(* Attacks, deaths and food, checked under Spec                            *)
(***************************************************************************)

\* the strike of the step's update was a valid attack: a predator whose
\* cooldown has elapsed on a living prey that is its nearest sensed creature
\* and lies within the attack range
ValidStrike(cs, i, strike) ==
    /\ strike.attacker.isPredator
    /\ strike.attacker.attackCooldown <= 0
    /\ ~strike.prey.isPredator
    /\ isAlive(strike.prey)
    /\ sense(cs, i) # 0
    /\ cs[sense(cs, i)].id = strike.prey.id
    /\ Dist2(strike.attacker, strike.prey)
         < AttackRange(strike.attacker, strike.prey)
             * AttackRange(strike.attacker, strike.prey)

\* C25: in a creature's update the energy of another creature falls only by
\* an attack on it, and an attack is made only by a living predator whose
\* cooldown is <= 0 on a living prey that is the attacker's nearest sensed
\* creature within attacker.radius + prey.radius + 15.
C25_AttackOnlyValid ==
    [][ pc = "creatures" =>
          /\ \A k \in DOMAIN creatures :
                (k # ci /\ creatures'[k].energy < creatures[k].energy) =>
                    /\ lastStep'.strike.hit
                    /\ lastStep'.strike.prey.id = creatures[k].id
          /\ lastStep'.strike.hit =>
                /\ isAlive(lastStep'.strike.attacker)
                /\ ValidStrike(creatures, ci, lastStep'.strike) ]_vars


\* creature c was killed by an attack: its energy is <= 0 and the log holds
\* the kill
Hunted(es, c) == c.energy <= 0 /\ KilledOf(es, c.id) # {}

\* what stays of a creature that is not updated
Remains(c) ==
    [ x |-> c.x, y |-> c.y, fitness |-> c.fitness, foodEaten |-> c.foodEaten,
      age |-> c.age, energy |-> c.energy ]

\* C26: a step of the creature loop updates the creature at the loop's
\* position and no other, and the position moves on by one; a creature
\* killed by an attack is not updated for the rest of the generation (its
\* position, fitness, food-eaten counter and age stay as the attack left
\* them) and is not sensed by the creatures updated after its death.
C26_KilledStaysOut ==
    [][ /\ pc = "creatures" =>
              /\ ci' = ci + 1
              /\ \A k \in DOMAIN creatures :
                    creatures'[k].age # creatures[k].age =>
                        k = ci /\ creatures'[k].age = creatures[k].age + 1
              /\ lastStep'.strike.hit =>
                    Remains(lastStep'.strike.preyAfter)
                      = [ Remains(lastStep'.strike.prey)
                            EXCEPT !.energy = lastStep'.strike.preyAfter.energy ]
        /\ generation' = generation =>
              \A k \in DOMAIN creatures :
                  Hunted(entries, creatures[k]) =>
                      /\ Remains(creatures'[k]) = Remains(creatures[k])
                      /\ (pc = "creatures" /\ isAlive(creatures[ci]))
                            => creatures'[ci].nearestCreature # k ]_vars

\* a hunter first in the array has killed the prey after it, the loop has
\* passed the prey without updating it, and a call later the prey is as the
\* attack left it
C26_Witness ==
    /\ calls = 2
    /\ pc = "idle"
    /\ generation = 1
    /\ \E k \in DOMAIN creatures :
          /\ k > 1
          /\ Hunted(entries, creatures[k])
          /\ creatures[k].age = 100
          /\ creatures[1].age > 101
          /\ creatures[1].kills > 0


\* the unconsumed meat items in fs that spawnMeat has created where creature
\* c lies, with the starvation lifetime (recognised by the position and by
\* spawnMeat's energy draw)
SpawnedAt(fs, c) ==
    { j \in DOMAIN fs : /\ fs[j].type = "meat"
                        /\ ~fs[j].consumed
                        /\ fs[j].x = c.x /\ fs[j].y = c.y
                        /\ fs[j].energy \in MeatEnergies
                        /\ fs[j].lifetime = 300 }

\* the creatures of the call under way: those the generation ended with, if
\* it ended in this call
CreaturesOfCall == IF transitionsInCall > 0 THEN population ELSE creatures

\* the creatures of cs that lie where c lies and have died in the call under
\* way without being killed by an attack
StarvedAt(cs, es, c) ==
    { k \in DOMAIN cs : /\ cs[k].x = c.x /\ cs[k].y = c.y
                        /\ cs[k].energy <= 0
                        /\ ~cs[k].deathLogged
                        /\ ~Hunted(es, cs[k]) }

\* C27: the tail of an update call creates exactly one meat item of lifetime
\* 300 at the position of every creature that has died in the call without
\* being killed by an attack, and none for a creature killed by an attack or
\* dead since an earlier call; a step of the creature loop creates one meat
\* item if it kills and none otherwise.
C27_OneMeatPerDeath ==
    [][ /\ pc = "frame" =>
              \A k \in DOMAIN CreaturesOfCall :
                  Cardinality(SpawnedAt(foods', CreaturesOfCall[k]))
                    = Cardinality(SpawnedAt(foods, CreaturesOfCall[k]))
                        + Cardinality(StarvedAt(CreaturesOfCall, entries,
                                                CreaturesOfCall[k]))
        /\ pc = "creatures" =>
              Len(foods') = Len(foods)
                  + (IF lastStep'.strike.hit /\ lastStep'.strike.preyAfter.energy <= 0
                     THEN 1 ELSE 0) ]_vars


\* the sum of the energies of the food items of fs with indices in S
RECURSIVE EnergyOf(_, _)
EnergyOf(fs, S) ==
    IF S = {} THEN 0
    ELSE fs[CHOOSE j \in S : TRUE].energy + EnergyOf(fs, S \ { CHOOSE j \in S : TRUE })

\* the food items the step has marked consumed, the meat of the step's own
\* kill included
EatenInStep ==
    { j \in DOMAIN foods' :
        foods'[j].consumed /\ (j \in DOMAIN foods => ~foods[j].consumed) }

\* the energy the updated creature had when it reached the food loop, for
\* the boost cost paid: the energy after the attack, if there was one, less
\* the cost of living and moving
EnergyBeforeEating(boostCost) ==
    (IF lastStep'.strike.hit THEN lastStep'.strike.attackerAfter.energy
     ELSE creatures[ci].energy - boostCost) - EnergyCost(creatures'[ci])

\* C28: an update marks consumed only unconsumed items of the updated
\* creature's food type (meat for a predator, plants for a prey); the
\* creature's food-eaten counter grows by the number of these items, its
\* fitness by their energy (next to the tick's 0.01 and a kill's reward) and
\* its energy becomes min(maxEnergy, energy + their energy); a consumed item
\* stays consumed and gives nothing, and no other creature gains anything.
C28_EatingRules ==
    [][ pc = "creatures" =>
          /\ \A j \in DOMAIN foods :
                foods[j].consumed => foods'[j] = foods[j]
          /\ \A j \in EatenInStep :
                /\ foods'[j].type = IF creatures[ci].isPredator THEN "meat" ELSE "plant"
                /\ j \in DOMAIN foods => foods'[j] = [ foods[j] EXCEPT !.consumed = TRUE ]
          /\ \A k \in DOMAIN creatures \ { ci } :
                /\ creatures'[k].foodEaten = creatures[k].foodEaten
                /\ creatures'[k].fitness = creatures[k].fitness
                /\ creatures'[k].energy <= creatures[k].energy
          /\ creatures'[ci].foodEaten
                = creatures[ci].foodEaten + Cardinality(EatenInStep)
          /\ (EatenInStep # {} \/ isAlive(creatures[ci])) =>
                creatures'[ci].fitness
                  = creatures[ci].fitness + EnergyOf(foods', EatenInStep) + 100
                      + (IF lastStep'.strike.hit
                         THEN lastStep'.strike.attackerAfter.fitness
                                - lastStep'.strike.attacker.fitness
                         ELSE 0)
          /\ EatenInStep # {} =>
                \E boostCost \in { 0, 30 * creatures[ci].traits.metabolism } :
                    creatures'[ci].energy
                      = Min(maxEnergy(creatures[ci]),
                            EnergyBeforeEating(boostCost)
                              + EnergyOf(foods', EatenInStep)) ]_vars

\* a hunter has just eaten a meat item whose energy its maxEnergy capped, and
\* a grazer has eaten a plant
C28_Witness ==
    /\ lastStep.kind = "update"
    /\ \E k \in DOMAIN creatures :
          /\ creatures[k].isPredator
          /\ creatures[k].kills = 0
          /\ creatures[k].foodEaten = 1
          /\ creatures[k].energy = maxEnergy(creatures[k])
    /\ \E k \in DOMAIN creatures :
          /\ ~creatures[k].isPredator
          /\ creatures[k].foodEaten = 1
    /\ \E j \in DOMAIN foods : foods[j].consumed /\ foods[j].type = "plant"
    /\ \E j \in DOMAIN foods : foods[j].consumed /\ foods[j].type = "meat"



---------------------------------------------------------------------------
(* The decay of food, checked under SpecDecay *)

\* the food list fs followed by fresh items only makes the next food list
KeptThenFresh(fs, gs) ==
    /\ Len(fs) <= Len(gs)
    /\ SubSeq(gs, 1, Len(fs)) = fs
    /\ \A k \in (Len(fs) + 1)..Len(gs) : gs[k].age = 0 /\ ~gs[k].consumed

\* C29: the age of a food item counts the ticks processed since its creation:
\* it is 0 at creation, and it grows by one at the head of every tick while the
\* item is unconsumed meat and in no other step, so not in a paused update call.
\* Such a meat item becomes consumed at the head of the tick in which its age
\* reaches its lifetime, and unconsumed meat is always younger than its
\* lifetime.  A plant is left alone by every step but a creature's update.
C29_MeatDecays ==
    [][ /\ pc = "tick" =>
              \A j \in DOMAIN foods :
                 /\ (foods[j].type = "meat" /\ ~foods[j].consumed) =>
                       /\ foods'[j].age = foods[j].age + 1
                       /\ foods'[j].consumed <=> (foods'[j].age >= foods[j].lifetime)
                 /\ (foods[j].type = "plant" \/ foods[j].consumed) =>
                       foods'[j] = foods[j]
        /\ pc = "creatures" =>
              /\ Len(foods) <= Len(foods')
              /\ \A j \in DOMAIN foods : foods'[j].age = foods[j].age
              /\ \A j \in (Len(foods) + 1)..Len(foods') : foods'[j].age = 0
        /\ pc = "idle" => foods' = foods
        /\ (pc = "check" /\ generation' = generation) => foods' = foods
        /\ (pc = "check" /\ generation' # generation) =>
              \A j \in DOMAIN foods' : foods'[j].age = 0 /\ ~foods'[j].consumed
        /\ pc = "frame" =>
              \/ KeptThenFresh(foods, foods')
              \/ KeptThenFresh(Filter(foods, IsLeft), foods')
        /\ \A j \in DOMAIN foods' :
              /\ (foods'[j].type = "meat" /\ ~foods'[j].consumed) =>
                    foods'[j].age < foods'[j].lifetime
              /\ foods'[j].type = "plant" => foods'[j].age = 0
    ]_vars

\* the second update call, after a first one that processed no tick, has
\* processed two, and at the head of the second a meat item has reached its
\* lifetime
C29_Witness ==
    /\ calls = 2
    /\ ticksInCall = 2
    /\ tick = 300
    /\ pc = "creatures"
    /\ \E j \in DOMAIN foods :
          /\ foods[j].type = "meat"
          /\ foods[j].consumed
          /\ foods[j].age = foods[j].lifetime



---------------------------------------------------------------------------
(* The world right after a generation transition, checked under Spec *)

\* C30: the step that changes the generation counter is the generation-end
\* check of update; it raises the counter by exactly one and leaves the tick
\* counter at 0.  The population it handed to evolve is the old one, creature by
\* creature, and the new population has as many creatures, each a new object
\* as its constructor makes it and alive.  The food list is made of
\* calculateFoodCount() plants, counted for the new population, followed by
\* meatCount meat items, all of them new and unconsumed.
C30_AfterTransition ==
    [][ generation' # generation =>
          /\ pc = "check"
          /\ generation' = generation + 1
          /\ tick' = 0
          /\ Len(population') = Len(creatures)
          /\ \A k \in DOMAIN creatures :
                /\ population'[k].id = creatures[k].id
                /\ population'[k].traits = creatures[k].traits
                /\ population'[k].brain = creatures[k].brain
          /\ Len(creatures') = Len(creatures)
          /\ \A k \in DOMAIN creatures' :
                /\ isAlive(creatures'[k])
                /\ creatures'[k].energy = Round(maxEnergy(creatures'[k]) * 8, 10)
                /\ creatures'[k].fitness = 0
                /\ creatures'[k].age = 0
                /\ ~creatures'[k].deathLogged
                /\ creatures'[k].id > creatureIdCounter
          /\ Len(foods') = calculateFoodCount(creatures', foodCount, balancing) + meatCount
          /\ \A j \in DOMAIN foods' :
                /\ foods'[j].type =
                      IF j <= calculateFoodCount(creatures', foodCount, balancing)
                      THEN "plant" ELSE "meat"
                /\ ~foods'[j].consumed
                /\ foods'[j].age = 0
    ]_vars

\* a generation has just ended in a world that held a dead creature, and the
\* new food list is not of the configured size
C30_Witness ==
    /\ pc = "frame"
    /\ transitionsInCall = 1
    /\ tick = 0
    /\ generation = 2
    /\ \E k \in DOMAIN population : ~isAlive(population[k])
    /\ Len(foods) # foodCount + meatCount



---------------------------------------------------------------------------
(* The size of the population and of the world, checked under SpecResize *)

\* C31: after every step of update, togglePause, setSpeed and resize the
\* creatures array has populationSize entries and populationSize is what it
\* was; within a generation the array holds the same agents at the same
\* indices, dead or alive, and a generation transition puts an array of the
\* same length in its place.
C31_PopulationSizeKept ==
    [][ /\ populationSize' = populationSize
        /\ Len(creatures) = populationSize
        /\ Len(creatures') = populationSize
        /\ generation' = generation =>
              \A k \in DOMAIN creatures : creatures'[k].id = creatures[k].id
        /\ generation' # generation =>
              \A k \in DOMAIN creatures' : creatures'[k].id > creatureIdCounter
    ]_vars

\* an update call returns, in a world that was made smaller, after the
\* generation ended on a population of two dead agents, one of which died
\* in this call
C31_Witness ==
    /\ pc = "idle"
    /\ generation = MaxGeneration + 1
    /\ width = 2000
    /\ populationSize = 2
    /\ Len(creatures) = 2
    /\ Len(population) = 2
    /\ \A k \in DOMAIN population : ~isAlive(population[k])


\* C32: the update of a living agent leaves it at a position with
\* 0 <= x <= width and 0 <= y <= height for the size the world has then, also
\* when the world was made smaller since the agent's previous update; resize
\* changes the width and the height and no agent.
C32_PositionInWorld ==
    [][ /\ (pc = "creatures" /\ isAlive(creatures[ci])) =>
              /\ 0 <= creatures'[ci].x /\ creatures'[ci].x <= width
              /\ 0 <= creatures'[ci].y /\ creatures'[ci].y <= height
        /\ (width' # width \/ height' # height) =>
              creatures' = creatures /\ foods' = foods
    ]_vars



---------------------------------------------------------------------------
(* Tournament selection and the start of a new agent, checked under SpecGA *)

\* C33: each of the two parents of an offspring is one of the individuals its
\* call of tournamentSelect drew from the whole population, and no drawn
\* individual of that call has a higher fitness.
C33_TournamentPicksFittest ==
    lastStep.kind = "select" =>
       /\ lastStep.drawn1 \subseteq Range(population)
       /\ lastStep.drawn2 \subseteq Range(population)
       /\ lastStep.parent1 \in lastStep.drawn1
       /\ lastStep.parent2 \in lastStep.drawn2
       /\ \A d \in lastStep.drawn1 : lastStep.parent1.fitness >= d.fitness
       /\ \A d \in lastStep.drawn2 : lastStep.parent2.fitness >= d.fitness

\* an offspring has one individual for both parents; its second parent won a
\* draw that held a dead individual of lower fitness
C33_Witness ==
    /\ lastStep.kind = "select"
    /\ lastStep.parent1.id = lastStep.parent2.id
    /\ \E d \in lastStep.drawn2 :
          /\ d.fitness < lastStep.parent2.fitness
          /\ ~isAlive(d)



\* an agent as the Creature constructor leaves it: nothing gathered, and the
\* energy 0.8 * maxEnergy of its own traits
StartsAfresh(c) ==
    /\ c.fitness = 0
    /\ c.kills = 0
    /\ c.foodEaten = 0
    /\ c.attackCooldown = 0
    /\ c.age = 0
    /\ c.energy = Round(maxEnergy(c) * 8, 10)

\* C34: every agent evolve puts into the new generation, elite clone, rescue
\* mutant or tournament offspring, starts with fitness 0, no kills, no food
\* eaten, no cooldown and the energy 0.8 * maxEnergy of its own traits,
\* whatever its parents had gathered; evolve leaves the fitness of the old
\* population's members as it was.
C34_NewAgentsStartAfresh ==
    [][ /\ \A k \in DOMAIN newGen' : StartsAfresh(newGen'[k])
        /\ population' = population
    ]_vars

\* evolve returns a generation of an elite clone, a rescue mutant and an
\* offspring whose parents had fitness, kills and a cooldown, and whose traits
\* give it another maxEnergy than its first parent's
C34_Witness ==
    /\ pc = "returned"
    /\ Len(newGen) = 3
    /\ newGen[1].isElite
    /\ ~newGen[2].isElite
    /\ \A e \in Range(entries) : e.type = "birth" => e.creatureId # newGen[2].id
    /\ lastStep.kind = "select"
    /\ lastStep.parent1.kills > 0
    /\ lastStep.parent1.attackCooldown > 0
    /\ maxEnergy(newGen[3]) # maxEnergy(lastStep.parent1)
    /\ \E e \in Range(entries) : e.type = "birth" /\ e.creatureId = newGen[3].id



---------------------------------------------------------------------------
(* The attack cooldown, checked under Spec *)

\* C35: an agent's cooldown changes only in its own update.  An update that
\* lands an attack starts with a cooldown of at most 1, which its countdown
\* brings to 0, and leaves the cooldown at attackCooldownMax; an update that
\* lands none lowers a positive cooldown by exactly 1 and changes no other
\* agent's energy.  The cooldown stays within 0..attackCooldownMax, so an
\* agent's next attack comes attackCooldownMax of its updates, one a tick,
\* after the last one at the earliest.
C35_CooldownProtocol ==
    [][ generation' = generation =>
          /\ \A k \in DOMAIN creatures :
                /\ ~(pc = "creatures" /\ k = ci) =>
                      creatures'[k].attackCooldown = creatures[k].attackCooldown
                /\ creatures'[k].attackCooldown >= 0
                /\ creatures'[k].attackCooldown <= attackCooldownMax(creatures[k])
          /\ (pc = "creatures" /\ isAlive(creatures[ci])) =>
                IF lastStep'.strike.hit
                THEN /\ creatures[ci].attackCooldown <= 1
                     /\ creatures'[ci].attackCooldown = attackCooldownMax(creatures[ci])
                ELSE /\ creatures'[ci].attackCooldown
                          = Max(0, creatures[ci].attackCooldown - 1)
                     /\ \A k \in DOMAIN creatures :
                           k # ci => creatures'[k].energy = creatures[k].energy
    ]_vars

\* a predator that landed an attack in the tick before is updated next to the
\* same prey, still alive and within its attack range, and lands none
C35_Witness ==
    /\ lastStep.kind = "update"
    /\ ~lastStep.strike.hit
    /\ lastStep.before[lastStep.i].isPredator
    /\ lastStep.before[lastStep.i].attackCooldown
          = attackCooldownMax(lastStep.before[lastStep.i])
    /\ creatures[lastStep.i].attackCooldown
          = attackCooldownMax(lastStep.before[lastStep.i]) - 1
    /\ \E n \in DOMAIN creatures :
          /\ sense(lastStep.before, lastStep.i) = n
          /\ ~lastStep.before[n].isPredator
          /\ isAlive(lastStep.before[n])
          /\ Dist2(lastStep.before[lastStep.i], lastStep.before[n])
               < AttackRange(lastStep.before[lastStep.i], lastStep.before[n])
                   * AttackRange(lastStep.before[lastStep.i], lastStep.before[n])



---------------------------------------------------------------------------
(* The objects of evolve, checked under SpecObjects *)

\* the addresses held by the members of a population
HeldBy(pop) == { pop[k].traits : k \in DOMAIN pop } \cup { pop[k].brain : k \in DOMAIN pop }

\* C36: making a new agent changes no parent: the members of the population
\* handed to evolve keep their species flag, fitness and elite flag, and their
\* trait objects and weight storage keep their content; no new agent holds a
\* trait object or a weight storage that a parent holds.
C36_ParentsUntouched ==
    [][ /\ population' = population
        /\ \A a \in HeldBy(population) : heap'[a] = heap[a]
        /\ \A k \in DOMAIN newGen' :
              /\ newGen'[k].traits \notin HeldBy(population)
              /\ newGen'[k].brain \notin HeldBy(population)
    ]_vars

\* the new generation holds an elite clone with its parent's trait values and
\* weights in objects of its own, and an agent whose weights were mutated in
\* the array read from its parent
C36_Witness ==
    /\ Len(newGen) = 2
    /\ \E k \in DOMAIN population :
          /\ newGen[1].isElite
          /\ heap[newGen[1].traits] = heap[population[k].traits]
          /\ heap[newGen[1].brain] = heap[population[k].brain]
          /\ newGen[1].traits # population[k].traits
          /\ newGen[1].brain # population[k].brain
    /\ lastStep.kind = "mutant"
    /\ heap[newGen[2].brain] # heap[population[lastStep.parent1].brain]



---------------------------------------------------------------------------
(* The number of plants, checked under Spec *)

IsUnconsumedPlant(f) == f.type = "plant" /\ ~f.consumed

\* C37: there are never more than floor(1.5 * foodCount) unconsumed plants.
\* The top-up at the end of an update call leaves no more of them than there
\* were or than the quota calculateFoodCount gives in that call, and within a
\* generation no other step adds one.
C37_PlantsBounded ==
    [][ /\ Count(foods', IsUnconsumedPlant) <= (3 * foodCount) \div 2
        /\ pc = "frame" =>
              Count(foods', IsUnconsumedPlant)
                 <= Max(Count(foods, IsUnconsumedPlant),
                        calculateFoodCount(creatures', foodCount, balancing))
        /\ (pc # "frame" /\ generation' = generation) =>
              Count(foods', IsUnconsumedPlant) <= Count(foods, IsUnconsumedPlant)
    ]_vars

\* an update call of the first generation has ended with a top-up: a plant
\* stands behind the meat in the food list
C37_Witness ==
    /\ pc = "idle"
    /\ calls >= 1
    /\ generation = 1
    /\ \E j \in DOMAIN foods :
          /\ j > 1
          /\ IsUnconsumedPlant(foods[j])
          /\ foods[j - 1].type = "meat"


---------------------------------------------------------------------------
(* The traits over the generations, checked under SpecTraits *)

InDeclaredRange(traits) ==
    \A key \in DOMAIN TRAIT_DEFINITIONS :
        /\ traits[key] >= TRAIT_DEFINITIONS[key].min
        /\ traits[key] <= TRAIT_DEFINITIONS[key].max

\* C38: in every reachable state, across the generations, every trait of every
\* agent lies within its declared [min, max]: those of the agents the
\* constructor spawned with generateTraits, and those of the elites, rescue
\* mutants and offspring of every later generation
C38_TraitsAlwaysInRange ==
    \A k \in DOMAIN population : InDeclaredRange(population[k].traits)

\* an agent of the third generation is the offspring of parents of the second:
\* its vision is a blend no agent was spawned with and its size was mutated
\* up to the maximum
C38_Witness ==
    /\ pc = "live"
    /\ generation = MaxGeneration + 1
    /\ \E k \in DOMAIN population :
          /\ population[k].id > 2 * MaxPop
          /\ population[k].traits.vision \notin { 50, 100, 150 }
          /\ population[k].traits.size = TRAIT_DEFINITIONS.size.max

=============================================================================
